---------------------------- MODULE Spec2Model ----------------------------
(***************************************************************************)
(* A model of the daiv-jira activity pipeline: the TimeRange membership    *)
(* test, the comment / changelog / issue extraction of ActivityService     *)
(* (sequential loops and goroutine fan-out over a result channel), the     *)
(* JiraAPIRepository, ActivityService.GetActivityReport, the four report    *)
(* formatters and the plugin's Initialize / GetStandupContext.             *)
(*                                                                         *)
(* Conventions.                                                            *)
(*  - A time.Time is an integer instant (a count of half days since        *)
(*    2023-01-01T00:00 UTC); Equal / After / Before compare instants.      *)
(*  - A Go string is a sequence of atoms.  An atom is a TLA+ string: one   *)
(*    character ("&") or a run of characters that no encoder touches       *)
(*    ("Alice").  Encoders map atoms, so escaping is visible.              *)
(*  - A Go slice is a record [isNil, elems]: a nil slice and an empty      *)
(*    non-nil slice are different values with the same length.             *)
(***************************************************************************)
EXTENDS Integers, Sequences, FiniteSets, TLC

VARIABLES
    rangeCall,      \* SpecRange: one call of TimeRange.IsInRange
    timeRange,      \* the window handed to the extraction function
    userAccountID,  \* the actor handed to processChangelog / processIssues
    items,          \* the raw input list (comments, histories or issues)
    mode,           \* which function runs: "comments", "changelog", "issues"
    phase,          \* main goroutine: "entry", "spawn", "collect", "returned"
    spawned,        \* number of worker goroutines started by the for loop
    wpc,            \* worker goroutine i: "run", "send", "exit", "done"
    wbuf,           \* worker goroutine i: values it still has to send
    wg,             \* sync.WaitGroup counter
    closerUp,       \* the goroutine running wg.Wait(); close(resultChan) exists
    resultChan,     \* the buffered channel's queue
    closed,         \* resultChan has been closed
    result,         \* the slice the function builds and returns
    formatter,      \* JiraPlugin.formatter, by its Name() ("" while nil)
    service,        \* JiraPlugin.client, .config and .service are set
    calls,          \* the repository calls the latest entry-point call made
    ret,            \* the latest entry-point call: its argument and returns
    report,         \* SpecFormat: the ActivityReport handed to the formatters
    formatted,      \* SpecFormat: log of the Format calls and their results
    config,         \* SpecQuery: JiraAPIRepository.config.QueryOptions
    search          \* SpecQuery: the latest request of fetchUpdatedIssues

rangeVars  == <<rangeCall>>
fanVars    == <<timeRange, userAccountID, items, mode, phase, spawned, wpc,
                wbuf, wg, closerUp, resultChan, closed, result>>
pluginVars == <<formatter, service, calls, ret>>
fmtVars    == <<report, formatted>>
queryVars  == <<config, search>>
vars       == <<rangeVars, fanVars, pluginVars, fmtVars, queryVars>>

-----------------------------------------------------------------------------
(* Bounds of the model. *)

\* Instants range over 0..MaxTime.
MaxTime == 3

\* The longest comment list and history list handed to the extraction.
MaxItems == 5

\* The longest raw issue list handed to processIssues or returned by a
\* search, and the longest issue list of a formatted report.
MaxIssues == 3

\* The number of Format calls made on one report.
MaxFormatCalls == 2

\* Largest number of items in one history entry of a burst input.
MaxBurst == 3

-----------------------------------------------------------------------------
(* Domain model: TimeRange *)

Instants == 0..MaxTime

TimeRange(s, e) == [Start |-> s, End |-> e]

TimeRanges == {TimeRange(s, e) : s \in Instants, e \in Instants}

\* mutant: the end bound taken inclusively
IsInRangeEndInclusive(tr, t) == (t = tr.Start \/ t > tr.Start) /\ t <= tr.End

\* func (tr TimeRange) IsInRange(t time.Time) bool
IsInRange(tr, t) == (t = tr.Start \/ t > tr.Start) /\ t < tr.End


-----------------------------------------------------------------------------
(* Raw Jira data (go-jira's Comment, ChangelogHistory, ChangelogItems, User) *)
(* and the timestamp layout the extraction parses.                          *)

\* The layout every extraction loop hands to time.Parse.
JiraLayout == "2006-01-02T15:04:05.000-0700"

\* A `Created` string: the instant it denotes and the layout it is written in.
Stamp(t) == [layout |-> JiraLayout, instant |-> t]

\* A `Created` string written in another layout (RFC 3339, no milliseconds).
BadStamp(t) == [layout |-> "2006-01-02T15:04:05Z07:00", instant |-> t]

\* time.Parse(JiraLayout, s): the instant, or an error and the zero time.
ParseTime(s) ==
    IF s.layout = JiraLayout
        THEN [err |-> FALSE, t |-> s.instant]
        ELSE [err |-> TRUE, t |-> 0]

Alice == [AccountID |-> "u1", DisplayName |-> <<"Alice">>,
          EmailAddress |-> <<"alice", "@", "example.com">>]
Bob   == [AccountID |-> "u2", DisplayName |-> <<"Bob">>,
          EmailAddress |-> <<"bob", "@", "example.com">>]

RawComment(created, author, body) ==
    [Created |-> created, Author |-> author, Body |-> body]

ChangelogItem(field, from, to) ==
    [Field |-> field, FromString |-> from, ToString |-> to]

RawHistory(created, author, its) ==
    [Created |-> created, Author |-> author, Items |-> its]

-----------------------------------------------------------------------------
(* Domain model: Comment, Change, Issue, User, ActivityReport *)

Comment(ts, author, content) ==
    [Timestamp |-> ts, Author |-> author, Content |-> content]

Change(ts, author, field, from, to) ==
    [Timestamp |-> ts, Author |-> author, Field |-> field,
     FromValue |-> from, ToValue |-> to]

\* A Go slice value: nil, or non-nil with its elements.
NilSlice == [isNil |-> TRUE, elems |-> <<>>]
Slice(s) == [isNil |-> FALSE, elems |-> s]

Issue(key, summary, status, cs, chs) ==
    [Key |-> key, Summary |-> summary, Status |-> status,
     Comments |-> cs, Changes |-> chs]

User(id, name, email) ==
    [AccountID |-> id, DisplayName |-> name, Email |-> email]

ActivityReport(tr, user, issues) ==
    [TimeRange |-> tr, User |-> user, Issues |-> issues]

-----------------------------------------------------------------------------
(* Extraction: the loop bodies of ActivityService *)

\* `len(x) < 5`: below it processComments and processChangelog run their
\* sequential loop, from it on they fan out.
Threshold == 5

\* The Comment built from a raw comment and its parsed timestamp.
ToComment(c, ts) == Comment(ts, c.Author.DisplayName, c.Body)

\* mutant: a history entry yields one Change only, for its first item
ToChangesFirstItemOnly(h, ts) ==
    [k \in 1..(IF Len(h.Items) = 0 THEN 0 ELSE 1) |->
        Change(ts, h.Author.DisplayName, h.Items[k].Field,
               h.Items[k].FromString, h.Items[k].ToString)]

\* The Changes built from a history entry: one per item, in item order.
ToChanges(h, ts) ==
    [k \in 1..Len(h.Items) |->
        Change(ts, h.Author.DisplayName, h.Items[k].Field,
               h.Items[k].FromString, h.Items[k].ToString)]

\* mutant: the sequential loop keeps comments whatever the window
CommentsSequentialNoWindow(comments, tr) ==
    LET F[i \in 0..Len(comments)] ==
            IF i = 0 THEN <<>>
            ELSE LET p == ParseTime(comments[i].Created) IN
                 IF p.err THEN F[i - 1]
                 ELSE Append(F[i - 1], ToComment(comments[i], p.t))
    IN F[Len(comments)]

\* mutant: a parse failure ends the loop (break instead of continue)
CommentsSequentialStopsAtBadStamp(comments, tr) ==
    LET Bad(i) == \E k \in 1..i : ParseTime(comments[k].Created).err
        F[i \in 0..Len(comments)] ==
            IF i = 0 THEN <<>>
            ELSE IF Bad(i) THEN F[i - 1]
                 ELSE IF IsInRange(tr, ParseTime(comments[i].Created).t)
                      THEN Append(F[i - 1],
                                  ToComment(comments[i],
                                            ParseTime(comments[i].Created).t))
                      ELSE F[i - 1]
    IN F[Len(comments)]

\* mutant: the sequential loop puts each kept comment in front of the result
CommentsSequentialPrepends(comments, tr) ==
    LET F[i \in 0..Len(comments)] ==
            IF i = 0 THEN <<>>
            ELSE LET p == ParseTime(comments[i].Created) IN
                 IF p.err THEN F[i - 1]
                 ELSE IF IsInRange(tr, p.t)
                      THEN <<ToComment(comments[i], p.t)>> \o F[i - 1]
                      ELSE F[i - 1]
    IN F[Len(comments)]

\* processCommentsSequential: parse, `continue` on error, append when in range.
processCommentsSequential(comments, tr) ==
    LET F[i \in 0..Len(comments)] ==
            IF i = 0 THEN <<>>
            ELSE LET p == ParseTime(comments[i].Created) IN
                 IF p.err THEN F[i - 1]
                 ELSE IF IsInRange(tr, p.t)
                      THEN Append(F[i - 1], ToComment(comments[i], p.t))
                      ELSE F[i - 1]
    IN F[Len(comments)]

\* processChangelogSequential: parse, `continue` on error; when the entry is in
\* range and its author is the actor, append one Change per item.
processChangelogSequential(histories, tr, actor) ==
    LET F[i \in 0..Len(histories)] ==
            IF i = 0 THEN <<>>
            ELSE LET p == ParseTime(histories[i].Created) IN
                 IF p.err THEN F[i - 1]
                 ELSE IF IsInRange(tr, p.t)
                         /\ histories[i].Author.AccountID = actor
                      THEN F[i - 1] \o ToChanges(histories[i], p.t)
                      ELSE F[i - 1]
    IN F[Len(histories)]

\* What one comment goroutine sends: nothing on a parse error (`return`) or out
\* of range, else the one Comment.
commentWorker(c, tr) ==
    LET p == ParseTime(c.Created) IN
    IF p.err THEN <<>>
    ELSE IF IsInRange(tr, p.t) THEN <<ToComment(c, p.t)>> ELSE <<>>

\* mutant: the history goroutine does not compare the author with the actor
HistoryWorkerAnyAuthor(h, tr, actor) ==
    LET p == ParseTime(h.Created) IN
    IF p.err THEN <<>>
    ELSE IF IsInRange(tr, p.t) THEN ToChanges(h, p.t) ELSE <<>>

\* mutant: the history goroutine sends its Changes last item first
HistoryWorkerLastItemFirst(h, tr, actor) ==
    LET p == ParseTime(h.Created)
        n == Len(h.Items)
    IN
    IF p.err THEN <<>>
    ELSE IF IsInRange(tr, p.t) /\ h.Author.AccountID = actor
         THEN [k \in 1..n |-> ToChanges(h, p.t)[n + 1 - k]]
         ELSE <<>>

\* mutant: the history goroutine leaves the loop after its first send
HistoryWorkerSendsOnce(h, tr, actor) ==
    LET p == ParseTime(h.Created) IN
    IF p.err THEN <<>>
    ELSE IF IsInRange(tr, p.t) /\ h.Author.AccountID = actor
         THEN [k \in 1..(IF h.Items = <<>> THEN 0 ELSE 1) |-> ToChanges(h, p.t)[k]]
         ELSE <<>>

\* What one history goroutine sends, in order: nothing on a parse error, out of
\* range or for another author, else one Change per item.
historyWorker(h, tr, actor) ==
    LET p == ParseTime(h.Created) IN
    IF p.err THEN <<>>
    ELSE IF IsInRange(tr, p.t) /\ h.Author.AccountID = actor
         THEN ToChanges(h, p.t)
         ELSE <<>>

-----------------------------------------------------------------------------
(* What a nested extraction call can return.  The issue goroutine and the  *)
(* repository call the extraction functions as plain functions; the fan-out *)
(* branch returns the goroutines' values in the order the channel got them. *)

\* Every merge of the sequences in `lists` that keeps each one's own order.
RECURSIVE Shuffles(_)
Shuffles(lists) ==
    LET live == {i \in DOMAIN lists : lists[i] # <<>>} IN
    IF live = {} THEN {<<>>}
    ELSE UNION {{<<Head(lists[i])>> \o rest :
                    rest \in Shuffles([lists EXCEPT ![i] = Tail(lists[i])])} :
                i \in live}

\* processComments: the slices it can return.
processCommentsResults(comments, tr) ==
    IF Len(comments) = 0 THEN {<<>>}
    ELSE IF Len(comments) < Threshold
         THEN {processCommentsSequential(comments, tr)}
         ELSE Shuffles([i \in 1..Len(comments) |-> commentWorker(comments[i], tr)])

\* processChangelog: the slices it can return.
processChangelogResults(histories, tr, actor) ==
    IF Len(histories) = 0 THEN {<<>>}
    ELSE IF Len(histories) < Threshold
         THEN {processChangelogSequential(histories, tr, actor)}
         ELSE Shuffles([i \in 1..Len(histories) |->
                            historyWorker(histories[i], tr, actor)])

\* A *T that is nil, and one that points at a value.
NilPtr == [isNil |-> TRUE]
CommentsPtr(cs) == [isNil |-> FALSE, Comments |-> cs]
ChangelogPtr(hs) == [isNil |-> FALSE, Histories |-> hs]

RawIssue(key, summary, status, cptr, chptr) ==
    [Key |-> key,
     Fields |-> [Summary |-> summary, Status |-> [Name |-> status],
                 Comments |-> cptr],
     Changelog |-> chptr]

\* What one issue goroutine of processIssues sends: the one domain Issue, its
\* Comments / Changes left nil when the raw issue has no comment collection /
\* no changelog.
issueWorker(raw, tr, actor) ==
    {<<Issue(raw.Key, raw.Fields.Summary, raw.Fields.Status.Name, cs, chs)>> :
        cs \in (IF raw.Fields.Comments.isNil THEN {NilSlice}
                ELSE {Slice(r) : r \in
                        processCommentsResults(raw.Fields.Comments.Comments, tr)}),
        chs \in (IF raw.Changelog.isNil THEN {NilSlice}
                 ELSE {Slice(r) : r \in
                        processChangelogResults(raw.Changelog.Histories, tr, actor)})}

-----------------------------------------------------------------------------
(* time.Time.Format.  Instants are half days, so every layout used below   *)
(* that carries the clock is exact, and the date-only layout drops the     *)
(* half.  All instants of the model fall in the first days of January 2023.*)

TicksPerDay == 2

\* Format("2006-01-02")
FormatDate(t) == <<"2023-01-0" \o ToString(t \div TicksPerDay + 1)>>

\* The "15:04" part; the models' instants are at midnight or at noon.
Clock(t) == IF t % TicksPerDay = 0 THEN "00:00" ELSE "12:00"

\* Format("2006-01-02 15:04")
FormatMinute(t) == FormatDate(t) \o <<" ", Clock(t)>>

\* Format("2006-01-02 15:04:05")
FormatSecond(t) == FormatDate(t) \o <<" ", Clock(t), ":00">>

\* Format(time.RFC3339), the instant being in UTC
FormatRFC3339(t) == FormatDate(t) \o <<"T", Clock(t), ":00", "Z">>

-----------------------------------------------------------------------------
(* The encoders' escaping of one character (encoding/xml EscapeText,       *)
(* encoding/json with HTML escaping on, as Marshal and MarshalIndent have). *)

XMLEscapeAtom(a) ==
    CASE a = "&"  -> "&amp;"
      [] a = "<"  -> "&lt;"
      [] a = ">"  -> "&gt;"
      [] a = "\"" -> "&#34;"
      [] a = "'"  -> "&#39;"
      [] a = "\t" -> "&#x9;"
      [] a = "\n" -> "&#xA;"
      [] a = "\r" -> "&#xD;"
      [] OTHER    -> a

XMLEscape(str) == [i \in 1..Len(str) |-> XMLEscapeAtom(str[i])]

JSONEscapeAtom(a) ==
    CASE a = "\"" -> "\\\""
      [] a = "\\" -> "\\\\"
      [] a = "\n" -> "\\n"
      [] a = "\r" -> "\\r"
      [] a = "\t" -> "\\t"
      [] a = "<"  -> "\\u003c"
      [] a = ">"  -> "\\u003e"
      [] a = "&"  -> "\\u0026"
      [] OTHER    -> a

\* A JSON string literal: quote, escaped characters, quote.
JSONString(str) ==
    <<"\"">> \o [i \in 1..Len(str) |-> JSONEscapeAtom(str[i])] \o <<"\"">>

\* Concatenation of the strings f[1], ..., f[n].
RECURSIVE Concat(_, _)
Concat(f, n) == IF n = 0 THEN <<>> ELSE Concat(f, n - 1) \o f[n]

\* Whether string `str` occurs in `text` (strings.Contains).
Contains(text, str) ==
    \E off \in 0..(Len(text) - Len(str)) :
        SubSeq(text, off + 1, off + Len(str)) = str

-----------------------------------------------------------------------------
(* Report formatters.  Format returns a FormattedContent and an error; the *)
(* marshalled structs hold strings only, so the encoders' error branch is  *)
(* never taken and err is always nil (the empty string).  The indentation  *)
(* and line breaks MarshalIndent inserts between elements are left out.    *)

FormattedContent(ct, content) ==
    [err |-> <<>>, ContentType |-> ct, Content |-> content]

\* The sentence of the text formats' empty-report placeholder.
NoActivity == "No activity found for the specified time range."

\* --- XMLFormatter ---

XMLElem(tag, str) == <<"<" \o tag \o ">">> \o XMLEscape(str) \o <<"</" \o tag \o ">">>

xmlComment(c) ==
    <<"<comment>">> \o XMLElem("timestamp", FormatSecond(c.Timestamp))
        \o XMLElem("author", c.Author) \o XMLElem("content", c.Content)
        \o <<"</comment>">>

xmlChange(c) ==
    <<"<change>">> \o XMLElem("timestamp", FormatSecond(c.Timestamp))
        \o XMLElem("author", c.Author) \o XMLElem("field", c.Field)
        \o XMLElem("from", c.FromValue) \o XMLElem("to", c.ToValue)
        \o <<"</change>">>

xmlIssue(issue) ==
    LET cs == issue.Comments.elems
        chs == issue.Changes.elems
    IN <<"<issue>">> \o XMLElem("key", issue.Key)
        \o XMLElem("status", issue.Status) \o XMLElem("summary", issue.Summary)
        \o <<"<comments>">>
        \o Concat([i \in 1..Len(cs) |-> xmlComment(cs[i])], Len(cs))
        \o <<"</comments>", "<changelog>">>
        \o Concat([i \in 1..Len(chs) |-> xmlChange(chs[i])], Len(chs))
        \o <<"</changelog>", "</issue>">>

\* mutant: no empty-report branch, the full document is marshalled
XMLFormatNoPlaceholder(rpt) ==
    LET is == rpt.Issues.elems IN
    {FormattedContent("application/xml",
        <<"<?xml version=\"1.0\" encoding=\"UTF-8\"?>\n", "<jira_report>">>
        \o Concat([i \in 1..Len(is) |-> xmlIssue(is[i])], Len(is))
        \o <<"</jira_report>">>)}

\* func (f *XMLFormatter) Format: the results it can return.
XMLFormat(rpt) ==
    LET is == rpt.Issues.elems IN
    IF Len(is) = 0
    THEN {FormattedContent("application/xml", <<"<jira_report></jira_report>">>)}
    ELSE {FormattedContent("application/xml",
            <<"<?xml version=\"1.0\" encoding=\"UTF-8\"?>\n", "<jira_report>">>
            \o Concat([i \in 1..Len(is) |-> xmlIssue(is[i])], Len(is))
            \o <<"</jira_report>">>)}

\* --- JSONFormatter ---

\* `"name": "value"`
JSONMember(name, str) == <<"\"" \o name \o "\": ">> \o JSONString(str)

\* The elements f[1..n] separated by commas.
RECURSIVE JSONList(_, _)
JSONList(f, n) ==
    IF n = 0 THEN <<>>
    ELSE IF n = 1 THEN f[1]
    ELSE JSONList(f, n - 1) \o <<",">> \o f[n]

jsonComment(c) ==
    <<"{">> \o JSONMember("timestamp", FormatRFC3339(c.Timestamp)) \o <<",">>
        \o JSONMember("author", c.Author) \o <<",">>
        \o JSONMember("content", c.Content) \o <<"}">>

jsonChange(c) ==
    <<"{">> \o JSONMember("timestamp", FormatRFC3339(c.Timestamp)) \o <<",">>
        \o JSONMember("author", c.Author) \o <<",">>
        \o JSONMember("field", c.Field) \o <<",">>
        \o JSONMember("from", c.FromValue) \o <<",">>
        \o JSONMember("to", c.ToValue) \o <<"}">>

jsonIssue(issue) ==
    LET cs == issue.Comments.elems
        chs == issue.Changes.elems
    IN <<"{">> \o JSONMember("key", issue.Key) \o <<",">>
        \o JSONMember("status", issue.Status) \o <<",">>
        \o JSONMember("summary", issue.Summary) \o <<",">>
        \o <<"\"comments\": [">>
        \o JSONList([i \in 1..Len(cs) |-> jsonComment(cs[i])], Len(cs))
        \o <<"]", ",", "\"changes\": [">>
        \o JSONList([i \in 1..Len(chs) |-> jsonChange(chs[i])], Len(chs))
        \o <<"]", "}">>

\* mutant: the user object also carries the accountID
JSONFormatWithAccountID(rpt) ==
    LET is == rpt.Issues.elems IN
    IF Len(is) = 0
    THEN {FormattedContent("application/json", <<"{}">>)}
    ELSE {FormattedContent("application/json",
            <<"{", "\"timeRange\": {">>
            \o JSONMember("start", FormatRFC3339(rpt.TimeRange.Start)) \o <<",">>
            \o JSONMember("end", FormatRFC3339(rpt.TimeRange.End))
            \o <<"}", ",", "\"user\": {">>
            \o JSONMember("accountId", <<rpt.User.AccountID>>) \o <<",">>
            \o JSONMember("displayName", rpt.User.DisplayName) \o <<",">>
            \o JSONMember("email", rpt.User.Email)
            \o <<"}", ",", "\"issues\": [">>
            \o JSONList([i \in 1..Len(is) |-> jsonIssue(is[i])], Len(is))
            \o <<"]", "}">>)}

\* func (f *JSONFormatter) Format: the results it can return.
JSONFormat(rpt) ==
    LET is == rpt.Issues.elems IN
    IF Len(is) = 0
    THEN {FormattedContent("application/json", <<"{}">>)}
    ELSE {FormattedContent("application/json",
            <<"{", "\"timeRange\": {">>
            \o JSONMember("start", FormatRFC3339(rpt.TimeRange.Start)) \o <<",">>
            \o JSONMember("end", FormatRFC3339(rpt.TimeRange.End))
            \o <<"}", ",", "\"user\": {">>
            \o JSONMember("displayName", rpt.User.DisplayName) \o <<",">>
            \o JSONMember("email", rpt.User.Email)
            \o <<"}", ",", "\"issues\": [">>
            \o JSONList([i \in 1..Len(is) |-> jsonIssue(is[i])], Len(is))
            \o <<"]", "}">>)}

\* --- grouping by status (MarkdownFormatter, HTMLFormatter) ---

\* Keys of `statusGroups`.
Statuses(is) == {is[i].Status : i \in 1..Len(is)}

\* mutant: the issues are not grouped, every section renders all of them
StatusGroupAllIssues(is, status) == is

\* mutant: the group is overwritten, not appended to, so that it keeps only
\* the last issue of the status
StatusGroupOverwritten(is, status) ==
    LET F[i \in 0..Len(is)] ==
            IF i = 0 THEN <<>>
            ELSE IF is[i].Status = status THEN <<is[i]>>
                 ELSE F[i - 1]
    IN F[Len(is)]

\* statusGroups[status]: the issues of that status, in report order.
StatusGroup(is, status) ==
    LET F[i \in 0..Len(is)] ==
            IF i = 0 THEN <<>>
            ELSE IF is[i].Status = status THEN Append(F[i - 1], is[i])
                 ELSE F[i - 1]
    IN F[Len(is)]

\* The orders in which `for status, issues := range statusGroups` can visit
\* the keys: Go leaves the iteration order of a map unspecified.
MapOrders(keys) ==
    {o \in [1..Cardinality(keys) -> keys] :
        \A i, j \in 1..Cardinality(keys) : o[i] = o[j] => i = j}

\* --- MarkdownFormatter ---

mdChange(c) ==
    <<"| ">> \o FormatMinute(c.Timestamp) \o <<" | ">> \o c.Field \o <<" | ">>
        \o c.FromValue \o <<" | ">> \o c.ToValue \o <<" |\n">>

mdComment(c) ==
    <<"**">> \o c.Author \o <<"** - ">> \o FormatMinute(c.Timestamp) \o <<"\n\n">>
        \o c.Content \o <<"\n\n">>

mdIssue(issue) ==
    LET cs == issue.Comments.elems
        chs == issue.Changes.elems
    IN <<"### [">> \o issue.Key \o <<"] ">> \o issue.Summary \o <<"\n\n">>
        \o (IF Len(chs) > 0
            THEN <<"#### Changes\n\n", "| Time | Field | From | To |\n",
                   "|------|-------|------|----|\n">>
                 \o Concat([i \in 1..Len(chs) |-> mdChange(chs[i])], Len(chs))
                 \o <<"\n">>
            ELSE <<>>)
        \o (IF Len(cs) > 0
            THEN <<"#### Comments\n\n">>
                 \o Concat([i \in 1..Len(cs) |-> mdComment(cs[i])], Len(cs))
            ELSE <<>>)
        \o <<"---\n\n">>

mdGroup(is, status) ==
    LET g == StatusGroup(is, status) IN
    <<"## ">> \o status \o <<" Issues\n\n">>
        \o Concat([i \in 1..Len(g) |-> mdIssue(g[i])], Len(g))

mdHeader(rpt) ==
    <<"# Jira Activity Report\n\n", "**Time Range:** ">>
        \o FormatDate(rpt.TimeRange.Start) \o <<" to ">>
        \o FormatDate(rpt.TimeRange.End) \o <<"\n\n", "**User:** ">>
        \o rpt.User.DisplayName \o <<" (">> \o rpt.User.Email \o <<")\n\n">>

\* func (f *MarkdownFormatter) Format: the results it can return, one per order
\* of the range over statusGroups.
MarkdownFormat(rpt) ==
    LET is == rpt.Issues.elems IN
    IF Len(is) = 0
    THEN {FormattedContent("text/markdown", <<NoActivity>>)}
    ELSE {FormattedContent("text/markdown",
            mdHeader(rpt)
            \o Concat([k \in 1..Len(o) |-> mdGroup(is, o[k])], Len(o))) :
          o \in MapOrders(Statuses(is))}

\* --- HTMLFormatter ---

htmlChange(c) ==
    <<"<div class=\"change\">\n", "<p><span class=\"author\">">> \o c.Author
        \o <<"</span> changed <strong>">> \o c.Field \o <<"</strong> from \"">>
        \o c.FromValue \o <<"\" to \"">> \o c.ToValue \o <<"\"</p>\n">>
        \o <<"<p class=\"timestamp\">">> \o FormatSecond(c.Timestamp)
        \o <<"</p>\n", "</div>\n">>

htmlComment(c) ==
    <<"<div class=\"comment\">\n", "<p><span class=\"author\">">> \o c.Author
        \o <<"</span></p>\n", "<p>">> \o c.Content \o <<"</p>\n">>
        \o <<"<p class=\"timestamp\">">> \o FormatSecond(c.Timestamp)
        \o <<"</p>\n", "</div>\n">>

htmlIssue(issue) ==
    LET cs == issue.Comments.elems
        chs == issue.Changes.elems
    IN <<"<div class=\"issue\">\n", "<h3><span class=\"issue-key\">[">>
        \o issue.Key \o <<"]</span> <span class=\"issue-summary\">">>
        \o issue.Summary \o <<"</span></h3>\n">>
        \o (IF Len(chs) > 0
            THEN <<"<div class=\"changes\">\n", "<h4>Changes</h4>\n">>
                 \o Concat([i \in 1..Len(chs) |-> htmlChange(chs[i])], Len(chs))
                 \o <<"</div>\n">>
            ELSE <<>>)
        \o (IF Len(cs) > 0
            THEN <<"<div class=\"comments\">\n", "<h4>Comments</h4>\n">>
                 \o Concat([i \in 1..Len(cs) |-> htmlComment(cs[i])], Len(cs))
                 \o <<"</div>\n">>
            ELSE <<>>)
        \o <<"</div>\n">>

htmlGroup(is, status) ==
    LET g == StatusGroup(is, status) IN
    <<"<h2>">> \o status \o <<" Issues</h2>\n">>
        \o Concat([i \in 1..Len(g) |-> htmlIssue(g[i])], Len(g))

\* The document shell up to the report header; the twelve stylesheet rules
\* are one atom.
htmlHeader(rpt) ==
    <<"<!DOCTYPE html>\n<html>\n<head>\n", "<title>Jira Activity Report</title>\n",
      "<style>\n", "body { ... } ... .timestamp { ... }\n", "</style>\n",
      "</head>\n<body>\n", "<h1>Jira Activity Report</h1>\n",
      "<div class=\"metadata\">\n", "<p><strong>Time Range:</strong> ">>
        \o FormatDate(rpt.TimeRange.Start) \o <<" to ">>
        \o FormatDate(rpt.TimeRange.End) \o <<"</p>\n", "<p><strong>User:</strong> ">>
        \o rpt.User.DisplayName \o <<" (">> \o rpt.User.Email
        \o <<")</p>\n", "</div>\n">>

\* func (f *HTMLFormatter) Format: the results it can return, one per order of
\* the range over statusGroups.
HTMLFormat(rpt) ==
    LET is == rpt.Issues.elems IN
    IF Len(is) = 0
    THEN {FormattedContent("text/html",
            <<"<html><body><h1>Jira Activity Report</h1><p>", NoActivity,
              "</p></body></html>">>)}
    ELSE {FormattedContent("text/html",
            htmlHeader(rpt)
            \o Concat([k \in 1..Len(o) |-> htmlGroup(is, o[k])], Len(o))
            \o <<"</body>\n</html>">>) :
          o \in MapOrders(Statuses(is))}

\* ReportFormatter.Format, by the formatter's Name().
Format(name, rpt) ==
    CASE name = "xml"      -> XMLFormat(rpt)
      [] name = "json"     -> JSONFormat(rpt)
      [] name = "markdown" -> MarkdownFormat(rpt)
      [] name = "html"     -> HTMLFormat(rpt)

-----------------------------------------------------------------------------
(* JiraAPIRepository.  The Jira server's answers (client.User.GetSelf and  *)
(* client.Issue.Search) are inputs: a record with `err` empty for nil.     *)

\* A non-nil *T.
Ptr(v) == [isNil |-> FALSE, val |-> v]

\* processComments of the repository: a sequential loop.
repoProcessComments(comments, tr) ==
    LET F[i \in 0..Len(comments)] ==
            IF i = 0 THEN <<>>
            ELSE LET p == ParseTime(comments[i].Created) IN
                 IF p.err THEN F[i - 1]
                 ELSE IF IsInRange(tr, p.t)
                      THEN Append(F[i - 1], ToComment(comments[i], p.t))
                      ELSE F[i - 1]
    IN F[Len(comments)]

\* processChangelog of the repository: a sequential loop.
repoProcessChangelog(histories, tr, actor) ==
    LET F[i \in 0..Len(histories)] ==
            IF i = 0 THEN <<>>
            ELSE LET p == ParseTime(histories[i].Created) IN
                 IF p.err THEN F[i - 1]
                 ELSE IF IsInRange(tr, p.t)
                         /\ histories[i].Author.AccountID = actor
                      THEN F[i - 1] \o ToChanges(histories[i], p.t)
                      ELSE F[i - 1]
    IN F[Len(histories)]

\* func (r *JiraAPIRepository) GetUser; `requests` are the requests it sent
\* to the Jira server, with their answers.
repoGetUser(selfResp) ==
    IF selfResp.err # <<>>
    THEN [user |-> NilPtr,
          err |-> <<"failed to get user from Jira: ">> \o selfResp.err,
          requests |-> <<[op |-> "GetSelf", resp |-> selfResp]>>]
    ELSE [user |-> Ptr(User(selfResp.user.AccountID, selfResp.user.DisplayName,
                            selfResp.user.EmailAddress)),
          err |-> <<>>,
          requests |-> <<[op |-> "GetSelf", resp |-> selfResp]>>]

\* The loop body of GetIssues: one raw issue to one domain Issue.
repoIssue(raw, tr, userID) ==
    Issue(raw.Key, raw.Fields.Summary, raw.Fields.Status.Name,
          IF raw.Fields.Comments.isNil THEN NilSlice
          ELSE Slice(repoProcessComments(raw.Fields.Comments.Comments, tr)),
          IF raw.Changelog.isNil THEN NilSlice
          ELSE Slice(repoProcessChangelog(raw.Changelog.Histories, tr, userID)))

\* mutant: issues without a comment or change in the window are left out
RepoGetIssuesSmartFiltering(tr, userID, searchResp) ==
    IF searchResp.err # <<>>
    THEN [issues |-> NilSlice,
          err |-> <<"failed to search issues in Jira: ">> \o searchResp.err,
          requests |-> <<[op |-> "Search", resp |-> searchResp]>>]
    ELSE [issues |->
             Slice(SelectSeq([i \in 1..Len(searchResp.issues) |->
                                 repoIssue(searchResp.issues[i], tr, userID)],
                             LAMBDA x : \/ Len(x.Comments.elems) > 0
                                        \/ Len(x.Changes.elems) > 0)),
          err |-> <<>>,
          requests |-> <<[op |-> "Search", resp |-> searchResp]>>]

\* func (r *JiraAPIRepository) GetIssues, fetchUpdatedIssues included
repoGetIssues(tr, userID, searchResp) ==
    IF searchResp.err # <<>>
    THEN [issues |-> NilSlice,
          err |-> <<"failed to search issues in Jira: ">> \o searchResp.err,
          requests |-> <<[op |-> "Search", resp |-> searchResp]>>]
    ELSE [issues |-> Slice([i \in 1..Len(searchResp.issues) |->
                               repoIssue(searchResp.issues[i], tr, userID)]),
          err |-> <<>>,
          requests |-> <<[op |-> "Search", resp |-> searchResp]>>]

-----------------------------------------------------------------------------
(* ActivityService.GetActivityReport *)

\* One call on the JiraRepository interface, with what it returned.
RepoCall(op, tr, userID, resp) ==
    [op |-> op, timeRange |-> tr, userID |-> userID, resp |-> resp]

\* mutant: a failed GetUser is tried a second time
GetActivityReportRetriesGetUser(tr, selfResp, searchResp) ==
    LET u == repoGetUser(selfResp) IN
    IF u.err # <<>>
    THEN [calls |-> <<RepoCall("GetUser", tr, "", u),
                      RepoCall("GetUser", tr, "", u)>>,
          report |-> NilPtr,
          err |-> <<"failed to get user: ">> \o u.err]
    ELSE LET is == repoGetIssues(tr, u.user.val.AccountID, searchResp) IN
         IF is.err # <<>>
         THEN [calls |-> <<RepoCall("GetUser", tr, "", u),
                           RepoCall("GetIssues", tr, u.user.val.AccountID, is)>>,
               report |-> NilPtr,
               err |-> <<"failed to get issues: ">> \o is.err]
         ELSE [calls |-> <<RepoCall("GetUser", tr, "", u),
                           RepoCall("GetIssues", tr, u.user.val.AccountID, is)>>,
               report |-> Ptr(ActivityReport(tr, u.user.val, is.issues)),
               err |-> <<>>]

\* mutant: the error of GetIssues is not checked
GetActivityReportIgnoresIssuesError(tr, selfResp, searchResp) ==
    LET u == repoGetUser(selfResp) IN
    IF u.err # <<>>
    THEN [calls |-> <<RepoCall("GetUser", tr, "", u)>>,
          report |-> NilPtr,
          err |-> <<"failed to get user: ">> \o u.err]
    ELSE LET is == repoGetIssues(tr, u.user.val.AccountID, searchResp) IN
         [calls |-> <<RepoCall("GetUser", tr, "", u),
                      RepoCall("GetIssues", tr, u.user.val.AccountID, is)>>,
          report |-> Ptr(ActivityReport(tr, u.user.val, is.issues)),
          err |-> <<>>]

\* mutant: the issues are fetched before the user is known, with the zero
\* accountID
GetActivityReportFetchesFirst(tr, selfResp, searchResp) ==
    LET u == repoGetUser(selfResp)
        is == repoGetIssues(tr, "", searchResp)
    IN IF u.err # <<>>
       THEN [calls |-> <<RepoCall("GetIssues", tr, "", is),
                         RepoCall("GetUser", tr, "", u)>>,
             report |-> NilPtr,
             err |-> <<"failed to get user: ">> \o u.err]
       ELSE IF is.err # <<>>
       THEN [calls |-> <<RepoCall("GetIssues", tr, "", is),
                         RepoCall("GetUser", tr, "", u)>>,
             report |-> NilPtr,
             err |-> <<"failed to get issues: ">> \o is.err]
       ELSE [calls |-> <<RepoCall("GetIssues", tr, "", is),
                         RepoCall("GetUser", tr, "", u)>>,
             report |-> Ptr(ActivityReport(tr, u.user.val, is.issues)),
             err |-> <<>>]

\* func (s *ActivityService) GetActivityReport: the repository calls it makes
\* and what it returns, given the server's answers.
GetActivityReport(tr, selfResp, searchResp) ==
    LET u == repoGetUser(selfResp) IN
    IF u.err # <<>>
    THEN [calls |-> <<RepoCall("GetUser", tr, "", u)>>,
          report |-> NilPtr,
          err |-> <<"failed to get user: ">> \o u.err]
    ELSE LET is == repoGetIssues(tr, u.user.val.AccountID, searchResp) IN
         IF is.err # <<>>
         THEN [calls |-> <<RepoCall("GetUser", tr, "", u),
                           RepoCall("GetIssues", tr, u.user.val.AccountID, is)>>,
               report |-> NilPtr,
               err |-> <<"failed to get issues: ">> \o is.err]
         ELSE [calls |-> <<RepoCall("GetUser", tr, "", u),
                           RepoCall("GetIssues", tr, u.user.val.AccountID, is)>>,
               report |-> Ptr(ActivityReport(tr, u.user.val, is.issues)),
               err |-> <<>>]

-----------------------------------------------------------------------------
(* Idle values: what each group of variables holds in a specification that *)
(* does not use it.                                                        *)

RangeIdle ==
    rangeCall = [tr |-> TimeRange(0, 0), t |-> 0, called |-> FALSE, ret |-> FALSE]

FanIdle ==
    /\ timeRange = TimeRange(0, 0)
    /\ userAccountID = ""
    /\ items = <<>>
    /\ mode = "none"
    /\ phase = "idle"
    /\ spawned = 0
    /\ wpc = <<>>
    /\ wbuf = <<>>
    /\ wg = 0
    /\ closerUp = FALSE
    /\ resultChan = <<>>
    /\ closed = FALSE
    /\ result = <<>>

PluginIdle ==
    /\ formatter = ""
    /\ service = FALSE
    /\ calls = <<>>
    /\ ret = [op |-> "none"]

FmtIdle ==
    /\ report = <<>>
    /\ formatted = <<>>

QueryIdle ==
    /\ config = <<>>
    /\ search = <<>>

-----------------------------------------------------------------------------
(* SpecRange: TimeRange.IsInRange applied to every range and instant. *)

InitRange ==
    /\ \E s \in Instants, e \in Instants, t \in Instants :
          rangeCall = [tr |-> TimeRange(s, e), t |-> t,
                       called |-> FALSE, ret |-> FALSE]
    /\ FanIdle /\ PluginIdle /\ FmtIdle /\ QueryIdle

CallIsInRange ==
    /\ ~rangeCall.called
    /\ rangeCall' = [rangeCall EXCEPT !.called = TRUE,
                                      !.ret = IsInRange(rangeCall.tr, rangeCall.t)]
    /\ UNCHANGED <<fanVars, pluginVars, fmtVars, queryVars>>

NextRange == CallIsInRange

SpecRange == InitRange /\ [][NextRange]_vars

\* C1: for every TimeRange [s, e) and instant t, IsInRange(t) is true exactly
\* when s <= t and t < e; t = s gives true (when s < e) and t = e gives false.
C1_IsInRangeHalfOpen ==
    rangeCall.called =>
        /\ rangeCall.ret <=> (rangeCall.tr.Start <= rangeCall.t
                              /\ rangeCall.t < rangeCall.tr.End)
        /\ (rangeCall.t = rangeCall.tr.End) => ~rangeCall.ret
        /\ (rangeCall.t = rangeCall.tr.Start
            /\ rangeCall.tr.Start < rangeCall.tr.End) => rangeCall.ret

\* The end-boundary case happened: IsInRange was called with t equal to End and
\* Start below it, and returned false.
C1_Witness ==
    /\ rangeCall.called
    /\ rangeCall.t = rangeCall.tr.End
    /\ rangeCall.tr.Start < rangeCall.tr.End
    /\ ~rangeCall.ret

-----------------------------------------------------------------------------
(* The fan-out of processIssues, processComments and processChangelog:     *)
(* one goroutine per item, a WaitGroup, a buffered result channel, a       *)
(* goroutine that closes the channel after wg.Wait(), and the caller       *)
(* ranging over the channel.                                               *)

N == Len(items)

\* make(chan T, len(x)); processChangelog makes len(histories)*2.
Capacity == IF mode = "changelog" THEN N * 2 ELSE N

\* The values goroutine i can be about to send (one choice, except for an
\* issue whose nested extraction fans out).
WorkerSends(i) ==
    CASE mode = "comments"  -> {commentWorker(items[i], timeRange)}
      [] mode = "changelog" -> {historyWorker(items[i], timeRange, userAccountID)}
      [] mode = "issues"    -> issueWorker(items[i], timeRange, userAccountID)

\* `if len(x) == 0 { return []T{} }`
ReturnEmpty ==
    /\ phase = "entry"
    /\ N = 0
    /\ result' = <<>>
    /\ phase' = "returned"
    /\ UNCHANGED <<timeRange, userAccountID, items, mode, spawned, wpc, wbuf,
                   wg, closerUp, resultChan, closed>>
    /\ UNCHANGED <<rangeVars, pluginVars, fmtVars, queryVars>>

\* `if len(x) < 5 { return s.process...Sequential(...) }`; processIssues has no
\* such branch.
RunSequential ==
    /\ phase = "entry"
    /\ mode \in {"comments", "changelog"}
    /\ 0 < N /\ N < Threshold
    /\ result' = IF mode = "comments"
                 THEN processCommentsSequential(items, timeRange)
                 ELSE processChangelogSequential(items, timeRange, userAccountID)
    /\ phase' = "returned"
    /\ UNCHANGED <<timeRange, userAccountID, items, mode, spawned, wpc, wbuf,
                   wg, closerUp, resultChan, closed>>
    /\ UNCHANGED <<rangeVars, pluginVars, fmtVars, queryVars>>

\* The fan-out branch is taken: the channel and the WaitGroup exist.
StartFanOut ==
    /\ phase = "entry"
    /\ N > 0
    /\ mode = "issues" \/ N >= Threshold
    /\ phase' = "spawn"
    /\ UNCHANGED <<timeRange, userAccountID, items, mode, spawned, wpc, wbuf,
                   wg, closerUp, resultChan, closed, result>>
    /\ UNCHANGED <<rangeVars, pluginVars, fmtVars, queryVars>>

\* mutant: the goroutine is started without wg.Add(1)
SpawnWithoutAdd ==
    /\ phase = "spawn"
    /\ spawned < N
    /\ spawned' = spawned + 1
    /\ wpc' = [wpc EXCEPT ![spawned + 1] = "run"]
    /\ UNCHANGED <<timeRange, userAccountID, items, mode, phase, wbuf, wg,
                   closerUp, resultChan, closed, result>>
    /\ UNCHANGED <<rangeVars, pluginVars, fmtVars, queryVars>>

\* One turn of `for _, x := range xs { wg.Add(1); go func(x){...}(x) }`.
Spawn ==
    /\ phase = "spawn"
    /\ spawned < N
    /\ wg' = wg + 1
    /\ spawned' = spawned + 1
    /\ wpc' = [wpc EXCEPT ![spawned + 1] = "run"]
    /\ UNCHANGED <<timeRange, userAccountID, items, mode, phase, wbuf,
                   closerUp, resultChan, closed, result>>
    /\ UNCHANGED <<rangeVars, pluginVars, fmtVars, queryVars>>

\* `go func() { wg.Wait(); close(resultChan) }()`, then the caller makes the
\* result slice and starts ranging over the channel.
StartCloser ==
    /\ phase = "spawn"
    /\ spawned = N
    /\ closerUp' = TRUE
    /\ phase' = "collect"
    /\ UNCHANGED <<timeRange, userAccountID, items, mode, spawned, wpc, wbuf,
                   wg, resultChan, closed, result>>
    /\ UNCHANGED <<rangeVars, pluginVars, fmtVars, queryVars>>

\* Goroutine i runs up to its first channel operation: it parses, filters and
\* builds what it will send; with nothing to send it is about to return.
WorkerRun(i) ==
    /\ wpc[i] = "run"
    /\ \E buf \in WorkerSends(i) :
          /\ wbuf' = [wbuf EXCEPT ![i] = buf]
          /\ wpc' = [wpc EXCEPT ![i] = IF buf = <<>> THEN "exit" ELSE "send"]
    /\ UNCHANGED <<timeRange, userAccountID, items, mode, phase, spawned, wg,
                   closerUp, resultChan, closed, result>>
    /\ UNCHANGED <<rangeVars, pluginVars, fmtVars, queryVars>>

\* `resultChan <- v`: blocks while the buffer is full; panics on a closed
\* channel.
WorkerSend(i) ==
    /\ wpc[i] = "send"
    /\ IF closed
       THEN /\ wpc' = [wpc EXCEPT ![i] = "panic"]
            /\ UNCHANGED <<wbuf, resultChan>>
       ELSE /\ Len(resultChan) < Capacity
            /\ resultChan' = Append(resultChan, Head(wbuf[i]))
            /\ wbuf' = [wbuf EXCEPT ![i] = Tail(wbuf[i])]
            /\ wpc' = [wpc EXCEPT ![i] = IF Tail(wbuf[i]) = <<>>
                                         THEN "exit" ELSE "send"]
    /\ UNCHANGED <<timeRange, userAccountID, items, mode, phase, spawned, wg,
                   closerUp, closed, result>>
    /\ UNCHANGED <<rangeVars, pluginVars, fmtVars, queryVars>>

\* `defer wg.Done()` as goroutine i returns.
WorkerDone(i) ==
    /\ wpc[i] = "exit"
    /\ wg' = wg - 1
    /\ wpc' = [wpc EXCEPT ![i] = "done"]
    /\ UNCHANGED <<timeRange, userAccountID, items, mode, phase, spawned, wbuf,
                   closerUp, resultChan, closed, result>>
    /\ UNCHANGED <<rangeVars, pluginVars, fmtVars, queryVars>>

\* mutant: close(resultChan) without waiting for the WaitGroup
CloseChanWithoutWait ==
    /\ closerUp
    /\ ~closed
    /\ closed' = TRUE
    /\ UNCHANGED <<timeRange, userAccountID, items, mode, phase, spawned, wpc,
                   wbuf, wg, closerUp, resultChan, result>>
    /\ UNCHANGED <<rangeVars, pluginVars, fmtVars, queryVars>>

\* wg.Wait() returns once the counter is zero; then close(resultChan).
CloseChan ==
    /\ closerUp
    /\ ~closed
    /\ wg = 0
    /\ closed' = TRUE
    /\ UNCHANGED <<timeRange, userAccountID, items, mode, phase, spawned, wpc,
                   wbuf, wg, closerUp, resultChan, result>>
    /\ UNCHANGED <<rangeVars, pluginVars, fmtVars, queryVars>>

\* mutant: the caller takes from the channel only once every goroutine has
\* returned
CollectAfterCompletion ==
    /\ phase = "collect"
    /\ wg = 0
    /\ resultChan # <<>>
    /\ result' = Append(result, Head(resultChan))
    /\ resultChan' = Tail(resultChan)
    /\ UNCHANGED <<timeRange, userAccountID, items, mode, phase, spawned, wpc,
                   wbuf, wg, closerUp, closed>>
    /\ UNCHANGED <<rangeVars, pluginVars, fmtVars, queryVars>>

\* One turn of `for v := range resultChan { result = append(result, v) }`.
Collect ==
    /\ phase = "collect"
    /\ resultChan # <<>>
    /\ result' = Append(result, Head(resultChan))
    /\ resultChan' = Tail(resultChan)
    /\ UNCHANGED <<timeRange, userAccountID, items, mode, phase, spawned, wpc,
                   wbuf, wg, closerUp, closed>>
    /\ UNCHANGED <<rangeVars, pluginVars, fmtVars, queryVars>>

\* mutant: the caller stops collecting as soon as the channel is empty,
\* without waiting for it to be closed
ReturnWhenEmpty ==
    /\ phase = "collect"
    /\ resultChan = <<>>
    /\ phase' = "returned"
    /\ UNCHANGED <<timeRange, userAccountID, items, mode, spawned, wpc, wbuf,
                   wg, closerUp, resultChan, closed, result>>
    /\ UNCHANGED <<rangeVars, pluginVars, fmtVars, queryVars>>

\* The range loop ends when the channel is closed and drained: `return result`.
ReturnCollected ==
    /\ phase = "collect"
    /\ resultChan = <<>>
    /\ closed
    /\ phase' = "returned"
    /\ UNCHANGED <<timeRange, userAccountID, items, mode, spawned, wpc, wbuf,
                   wg, closerUp, resultChan, closed, result>>
    /\ UNCHANGED <<rangeVars, pluginVars, fmtVars, queryVars>>

FanNext ==
    \/ ReturnEmpty
    \/ StartFanOut
    \/ Spawn
    \/ StartCloser
    \/ \E i \in 1..N : WorkerRun(i)
    \/ \E i \in 1..N : WorkerSend(i)
    \/ \E i \in 1..N : WorkerDone(i)
    \/ CloseChan
    \/ Collect
    \/ ReturnCollected

\* The state at the call of an extraction function.
FanEntry(m, xs, tr, actor) ==
    /\ mode = m
    /\ items = xs
    /\ timeRange = tr
    /\ userAccountID = actor
    /\ phase = "entry"
    /\ spawned = 0
    /\ wpc = [i \in 1..Len(xs) |-> "idle"]
    /\ wbuf = [i \in 1..Len(xs) |-> <<>>]
    /\ wg = 0
    /\ closerUp = FALSE
    /\ resultChan = <<>>
    /\ closed = FALSE
    /\ result = <<>>

-----------------------------------------------------------------------------
(* Inputs of the extraction specifications: every order-preserving         *)
(* selection from a fixed feed of raw items, up to the bound on length.    *)

RECURSIVE Pick(_, _, _)
Pick(feed, S, i) ==
    IF i > Len(feed) THEN <<>>
    ELSE (IF i \in S THEN <<feed[i]>> ELSE <<>>) \o Pick(feed, S, i + 1)

Selections(feed, maxLen) ==
    {Pick(feed, S, 1) : S \in {T \in SUBSET (1..Len(feed)) : Cardinality(T) <= maxLen}}

\* The windows the extraction is run with.
FanRanges == {TimeRange(1, 3), TimeRange(0, 2)}

CommentFeed ==
    << RawComment(Stamp(1), Alice, <<"starting">>),
       RawComment(Stamp(2), Bob, <<"LGTM">>),
       RawComment(BadStamp(2), Alice, <<"a", "<", "b">>),
       RawComment(Stamp(3), Alice, <<"done">>),
       RawComment(Stamp(0), Bob, <<"early">>),
       RawComment(Stamp(2), Alice, <<"R", "&", "D">>),
       RawComment(Stamp(2), Bob, <<"LGTM">>) >>

HistoryFeed ==
    << RawHistory(Stamp(1), Alice,
           <<ChangelogItem(<<"status">>, <<"Open">>, <<"In Progress">>),
             ChangelogItem(<<"assignee">>, <<>>, <<"Alice">>)>>),
       RawHistory(Stamp(2), Bob,
           <<ChangelogItem(<<"priority">>, <<"Low">>, <<"High">>)>>),
       RawHistory(BadStamp(2), Alice,
           <<ChangelogItem(<<"labels">>, <<>>, <<"x">>)>>),
       RawHistory(Stamp(3), Alice,
           <<ChangelogItem(<<"status">>, <<"In Progress">>, <<"Done">>)>>),
       RawHistory(Stamp(2), Alice, <<>>),
       RawHistory(Stamp(2), Alice,
           <<ChangelogItem(<<"summary">>, <<"a">>, <<"a", "<", "b">>)>>),
       RawHistory(Stamp(0), Alice,
           <<ChangelogItem(<<"status">>, <<"New">>, <<"Open">>)>>) >>

IssueFeed ==
    << RawIssue(<<"J", "-", "1">>, <<"Fix login">>, <<"In Progress">>,
                CommentsPtr(SubSeq(CommentFeed, 1, 4)),
                ChangelogPtr(SubSeq(HistoryFeed, 1, 2))),
       RawIssue(<<"J", "-", "2">>, <<"Write docs">>, <<"Done">>,
                NilPtr, NilPtr),
       RawIssue(<<"J", "-", "3">>, <<"R", "&", "D">>, <<"Open">>,
                CommentsPtr(<<>>), ChangelogPtr(SubSeq(HistoryFeed, 3, 4))),
       RawIssue(<<"J", "-", "4">>, <<"Tune cache">>, <<"In Progress">>,
                CommentsPtr(SubSeq(CommentFeed, 3, 5)), NilPtr) >>

-----------------------------------------------------------------------------
(* SpecComments: ActivityService.processComments *)

InitComments ==
    /\ \E xs \in Selections(CommentFeed, MaxItems), tr \in FanRanges :
          FanEntry("comments", xs, tr, "")
    /\ RangeIdle /\ PluginIdle /\ FmtIdle /\ QueryIdle

NextComments == FanNext \/ RunSequential

SpecComments == InitComments /\ [][NextComments]_vars

(* SpecChangelog: ActivityService.processChangelog *)

InitChangelog ==
    /\ \E xs \in Selections(HistoryFeed, MaxItems), tr \in FanRanges,
          actor \in {Alice.AccountID, Bob.AccountID} :
          FanEntry("changelog", xs, tr, actor)
    /\ RangeIdle /\ PluginIdle /\ FmtIdle /\ QueryIdle

NextChangelog == FanNext \/ RunSequential

SpecChangelog == InitChangelog /\ [][NextChangelog]_vars

(* SpecIssues: ActivityService.processIssues *)

InitIssues ==
    /\ \E xs \in Selections(IssueFeed, MaxIssues), tr \in FanRanges :
          FanEntry("issues", xs, tr, Alice.AccountID)
    /\ RangeIdle /\ PluginIdle /\ FmtIdle /\ QueryIdle

NextIssues == FanNext

SpecIssues == InitIssues /\ [][NextIssues]_vars

-----------------------------------------------------------------------------
(* Claims about the extraction *)

\* Number of positions of sequence q that hold v.
Count(q, v) == Cardinality({j \in 1..Len(q) : q[j] = v})

\* The raw timestamp parses and lies in [Start, End) of the window.
StampInWindow(created) ==
    /\ ~ParseTime(created).err
    /\ timeRange.Start <= ParseTime(created).t
    /\ ParseTime(created).t < timeRange.End

\* Change j of sequence q was built from item k of history entry i.
ChangeFrom(q, j, i, k) ==
    q[j] = Change(ParseTime(items[i].Created).t, items[i].Author.DisplayName,
                  items[i].Items[k].Field, items[i].Items[k].FromString,
                  items[i].Items[k].ToString)

\* C2: every Change that processChangelog produces (sequential or fan-out path,
\* already collected or still in the channel) comes from a history entry whose
\* timestamp is in [start, end) and whose author accountID is the actor; an
\* in-range entry of another author yields no Change.
C2_ChangesFromActorInWindow ==
    mode = "changelog" =>
        LET produced == result \o resultChan IN
        /\ \A j \in 1..Len(produced) :
              \E i \in 1..N :
                 /\ StampInWindow(items[i].Created)
                 /\ items[i].Author.AccountID = userAccountID
                 /\ \E k \in 1..Len(items[i].Items) : ChangeFrom(produced, j, i, k)
        /\ \A i \in 1..N :
              (StampInWindow(items[i].Created)
               /\ items[i].Author.AccountID # userAccountID)
              => \A j \in 1..Len(produced) :
                    produced[j].Author # items[i].Author.DisplayName

\* The fan-out path returned Changes of the actor while the input held an
\* in-range entry, with items, of another author.
C2_Witness ==
    /\ mode = "changelog"
    /\ phase = "returned"
    /\ N >= Threshold
    /\ result # <<>>
    /\ \E i \in 1..N :
          /\ StampInWindow(items[i].Created)
          /\ items[i].Author.AccountID # userAccountID
          /\ items[i].Items # <<>>

\* C3: processComments returns a raw comment's Comment exactly when its
\* timestamp parses and start <= timestamp < end, once per such raw comment and
\* whoever wrote it.
C3_CommentsExactlyInWindow ==
    (mode = "comments" /\ phase = "returned") =>
        /\ \A j \in 1..Len(result) :
              \E i \in 1..N : /\ StampInWindow(items[i].Created)
                              /\ result[j] = ToComment(items[i],
                                                ParseTime(items[i].Created).t)
        /\ \A i \in 1..N :
              StampInWindow(items[i].Created) =>
                 LET v == ToComment(items[i], ParseTime(items[i].Created).t) IN
                 Count(result, v) =
                    Cardinality({m \in 1..N :
                        /\ StampInWindow(items[m].Created)
                        /\ ToComment(items[m], ParseTime(items[m].Created).t) = v})

\* The fan-out path returned comments of two different authors.
C3_Witness ==
    /\ mode = "comments"
    /\ phase = "returned"
    /\ N >= Threshold
    /\ \E j, m \in 1..Len(result) : result[j].Author # result[m].Author

\* C4: processIssues, which fans out one goroutine per issue, returns exactly
\* N issues whose keys are the N input keys, under every interleaving.
C4_IssueKeysPreserved ==
    (mode = "issues" /\ phase = "returned") =>
        /\ Len(result) = N
        /\ {result[j].Key : j \in 1..Len(result)} = {items[i].Key : i \in 1..N}
        /\ \A j, m \in 1..Len(result) : result[j].Key = result[m].Key => j = m

\* processIssues returned all of three issues in an order that is not the
\* input order.
C4_Witness ==
    /\ mode = "issues"
    /\ phase = "returned"
    /\ N >= 3
    /\ Len(result) = N
    /\ result[1].Key = items[N].Key

-----------------------------------------------------------------------------
(* SpecFormat: the four formatters applied to a report *)

AliceUser == User(Alice.AccountID, Alice.DisplayName, Alice.EmailAddress)
BobUser   == User(Bob.AccountID, Bob.DisplayName, Bob.EmailAddress)

\* Domain issues a report can hold.
DomainIssueFeed ==
    << Issue(<<"J", "-", "1">>, <<"Fix login">>, <<"In Progress">>,
             Slice(<<Comment(2, <<"Bob">>, <<"LGTM">>)>>),
             Slice(<<Change(1, <<"Alice">>, <<"status">>, <<"Open">>,
                            <<"In Progress">>),
                     Change(1, <<"Alice">>, <<"assignee">>, <<>>, <<"Alice">>)>>)),
       Issue(<<"R", "&", "D", "-", "2">>, <<"Write docs">>, <<"Done">>,
             NilSlice, NilSlice),
       Issue(<<"J", "-", "3">>, <<"a", "<", "b">>, <<"In Progress">>,
             Slice(<<Comment(1, <<"Alice">>, <<"say ", "\"", "hi", "\"">>)>>),
             Slice(<<>>)),
       Issue(<<"J", "-", "4">>, <<"Tune cache">>, <<"Open">>,
             Slice(<<>>), NilSlice) >>

ReportIssues ==
    {NilSlice} \cup {Slice(xs) : xs \in Selections(DomainIssueFeed, MaxIssues)}

InitFormat ==
    /\ \E tr \in FanRanges, u \in {AliceUser, BobUser}, is \in ReportIssues :
          report = ActivityReport(tr, u, is)
    /\ formatted = <<>>
    /\ RangeIdle /\ FanIdle /\ PluginIdle /\ QueryIdle

\* mutant: the formatter reverses report.Issues in place
CallFormatReversesIssues(name) ==
    /\ Len(formatted) < MaxFormatCalls
    /\ \E out \in Format(name, report) :
          formatted' = Append(formatted,
                              [formatter |-> name, report |-> report, out |-> out])
    /\ report' = [report EXCEPT !.Issues.elems =
                     [i \in 1..Len(@) |-> @[Len(@) + 1 - i]]]
    /\ UNCHANGED <<rangeVars, fanVars, pluginVars, queryVars>>

\* One call formatter.Format(&report); the formatters only read the report.
CallFormat(name) ==
    /\ Len(formatted) < MaxFormatCalls
    /\ \E out \in Format(name, report) :
          formatted' = Append(formatted,
                              [formatter |-> name, report |-> report, out |-> out])
    /\ UNCHANGED report
    /\ UNCHANGED <<rangeVars, fanVars, pluginVars, queryVars>>

NextFormat ==
    \/ CallFormat("xml")
    \/ CallFormat("json")
    \/ CallFormat("markdown")
    \/ CallFormat("html")

SpecFormat == InitFormat /\ [][NextFormat]_vars

-----------------------------------------------------------------------------
(* Claims about the formatters *)

\* The content type each formatter is to report.
ContentTypeOf(name) ==
    CASE name = "xml"      -> "application/xml"
      [] name = "json"     -> "application/json"
      [] name = "markdown" -> "text/markdown"
      [] name = "html"     -> "text/html"

\* C7: for a report with no issues each formatter returns, without error, its
\* fixed placeholder, whatever the report's time range and user: JSON exactly
\* {}, XML exactly the empty root element, Markdown and HTML a fixed text
\* holding the "No activity found" sentence.
C7_EmptyReportPlaceholder ==
    \A k \in 1..Len(formatted) :
        LET call == formatted[k] IN
        Len(call.report.Issues.elems) = 0 =>
            /\ call.out.err = <<>>
            /\ call.formatter = "json" => call.out.Content = <<"{}">>
            /\ call.formatter = "xml" =>
                  call.out.Content = <<"<jira_report></jira_report>">>
            /\ call.formatter = "markdown" =>
                  call.out.Content =
                      <<"No activity found for the specified time range.">>
            /\ call.formatter = "html" =>
                  call.out.Content =
                      <<"<html><body><h1>Jira Activity Report</h1><p>",
                        "No activity found for the specified time range.",
                        "</p></body></html>">>

\* An empty, non-nil issue list has been formatted by the XML formatter and
\* then by the HTML formatter.
C7_Witness ==
    /\ Len(formatted) = 2
    /\ Len(report.Issues.elems) = 0
    /\ ~report.Issues.isNil
    /\ formatted[1].formatter = "xml"
    /\ formatted[2].formatter = "html"

EncodedKey(name, key) ==
    CASE name = "xml"  -> XMLEscape(key)
      [] name = "json" -> JSONString(key)
      [] OTHER         -> key

C9_FormatTwiceSameOutput ==
    \A k, m \in 1..Len(formatted) :
        (formatted[k].formatter = formatted[m].formatter
         /\ formatted[k].report = formatted[m].report)
        => formatted[k].out = formatted[m].out

-----------------------------------------------------------------------------
(* JiraPlugin: Initialize, GetStandupContext, and the service called       *)
(* directly.  Of each entry-point call the model keeps the latest one: the *)
(* repository calls it made (calls) and its argument and returns (ret).    *)

\* The value of settings["jira.format"]: absent, not a string, or a string.
FormatSetting(kind, value) == [kind |-> kind, value |-> value]

FormatSettings ==
    {FormatSetting("absent", ""), FormatSetting("number", "")}
    \cup {FormatSetting("string", v) :
            v \in {"", "xml", "json", "markdown", "html", "yaml", "XML"}}

\* The settings map, as far as Initialize branches on it: whether the four
\* required keys hold strings, whether extJira.NewClient accepts jira.url, and
\* the value under jira.format.
Settings ==
    [required : BOOLEAN, urlOK : BOOLEAN, format : FormatSettings]

\* mutant: the format is matched without the html case
SelectFormatterNoHTML(f) ==
    LET format == IF f.kind # "string" \/ f.value = "" THEN "json" ELSE f.value
    IN CASE format = "json"     -> "json"
         [] format = "markdown" -> "markdown"
         [] format = "xml"      -> "xml"
         [] OTHER               -> "json"

\* The formatter Initialize constructs for settings["jira.format"], by Name().
SelectFormatter(f) ==
    LET format == IF f.kind # "string" \/ f.value = "" THEN "json" ELSE f.value
    IN CASE format = "json"     -> "json"
         [] format = "markdown" -> "markdown"
         [] format = "xml"      -> "xml"
         [] format = "html"     -> "html"
         [] OTHER               -> "json"

\* A panic ends the process.
Running == ~(ret.op # "none" /\ ret.outcome = "panic")

\* func (p *JiraPlugin) Initialize
Initialize(settings) ==
    /\ Running
    /\ calls' = <<>>
    /\ IF ~settings.required
       THEN \* settings["jira.username"].(string) panics
            /\ ret' = [op |-> "Initialize", arg |-> settings,
                       outcome |-> "panic", err |-> <<>>]
            /\ UNCHANGED <<formatter, service>>
       ELSE IF ~settings.urlOK
       THEN /\ ret' = [op |-> "Initialize", arg |-> settings,
                       outcome |-> "return",
                       err |-> <<"failed to create Jira client: ", "parse">>]
            /\ UNCHANGED <<formatter, service>>
       ELSE /\ service' = TRUE
            /\ formatter' = SelectFormatter(settings.format)
            /\ ret' = [op |-> "Initialize", arg |-> settings,
                       outcome |-> "return", err |-> <<>>]
    /\ UNCHANGED <<rangeVars, fanVars, fmtVars, queryVars>>

\* What the Jira server answers to User.GetSelf and to Issue.Search.
SelfResponses ==
    {[err |-> <<"401 Unauthorized">>, user |-> Alice],
     [err |-> <<>>, user |-> Alice],
     [err |-> <<>>, user |-> Bob]}

SearchResponses ==
    {[err |-> <<"503 Service Unavailable">>, issues |-> <<>>]}
    \cup {[err |-> <<>>, issues |-> xs] : xs \in Selections(IssueFeed, MaxIssues)}

\* A call of p.service.GetActivityReport(timeRange) from outside the plugin.
CallGetActivityReport ==
    /\ Running
    /\ service
    /\ \E tr \in FanRanges, selfResp \in SelfResponses,
          searchResp \in SearchResponses :
          LET r == GetActivityReport(tr, selfResp, searchResp) IN
          /\ calls' = r.calls
          /\ ret' = [op |-> "GetActivityReport", arg |-> tr,
                     outcome |-> "return", report |-> r.report, err |-> r.err]
    /\ UNCHANGED <<formatter, service>>
    /\ UNCHANGED <<rangeVars, fanVars, fmtVars, queryVars>>

\* The zero plug.StandupContext.
ZeroStandupContext == [PluginName |-> <<>>, Content |-> <<>>]

\* mutant: on an aggregation failure the context keeps the plugin name
GetStandupContextNamedOnError ==
    /\ Running
    /\ IF ~service
       THEN \* p.service is nil
            /\ calls' = <<>>
            /\ \E tr \in FanRanges :
                  ret' = [op |-> "GetStandupContext", arg |-> tr,
                          outcome |-> "panic", err |-> <<>>]
       ELSE \E tr \in FanRanges, selfResp \in SelfResponses,
               searchResp \in SearchResponses :
               LET r == GetActivityReport(tr, selfResp, searchResp) IN
               /\ calls' = r.calls
               /\ IF r.err # <<>>
                  THEN ret' = [op |-> "GetStandupContext", arg |-> tr,
                               outcome |-> "return", formats |-> 0,
                               context |-> [PluginName |-> <<"daiv-jira">>,
                                            Content |-> <<>>],
                               err |-> <<"failed to get activity report: ">>
                                       \o r.err]
                  ELSE \E out \in Format(formatter, r.report.val) :
                          IF out.err # <<>>
                          THEN ret' = [op |-> "GetStandupContext", arg |-> tr,
                                       outcome |-> "return", formats |-> 1,
                                       context |-> ZeroStandupContext,
                                       err |-> <<"failed to format activity report: ">>
                                               \o out.err]
                          ELSE ret' = [op |-> "GetStandupContext", arg |-> tr,
                                       outcome |-> "return", formats |-> 1,
                                       context |-> [PluginName |-> <<"daiv-jira">>,
                                                    Content |-> out.Content],
                                       err |-> <<>>]
    /\ UNCHANGED <<formatter, service>>
    /\ UNCHANGED <<rangeVars, fanVars, fmtVars, queryVars>>

\* func (p *JiraPlugin) GetStandupContext
GetStandupContext ==
    /\ Running
    /\ IF ~service
       THEN \* p.service is nil
            /\ calls' = <<>>
            /\ \E tr \in FanRanges :
                  ret' = [op |-> "GetStandupContext", arg |-> tr,
                          outcome |-> "panic", err |-> <<>>]
       ELSE \E tr \in FanRanges, selfResp \in SelfResponses,
               searchResp \in SearchResponses :
               LET r == GetActivityReport(tr, selfResp, searchResp) IN
               /\ calls' = r.calls
               /\ IF r.err # <<>>
                  THEN ret' = [op |-> "GetStandupContext", arg |-> tr,
                               outcome |-> "return", formats |-> 0,
                               context |-> ZeroStandupContext,
                               err |-> <<"failed to get activity report: ">>
                                       \o r.err]
                  ELSE \E out \in Format(formatter, r.report.val) :
                          IF out.err # <<>>
                          THEN ret' = [op |-> "GetStandupContext", arg |-> tr,
                                       outcome |-> "return", formats |-> 1,
                                       context |-> ZeroStandupContext,
                                       err |-> <<"failed to format activity report: ">>
                                               \o out.err]
                          ELSE ret' = [op |-> "GetStandupContext", arg |-> tr,
                                       outcome |-> "return", formats |-> 1,
                                       context |-> [PluginName |-> <<"daiv-jira">>,
                                                    Content |-> out.Content],
                                       err |-> <<>>]
    /\ UNCHANGED <<formatter, service>>
    /\ UNCHANGED <<rangeVars, fanVars, fmtVars, queryVars>>

InitPlugin ==
    /\ formatter = ""
    /\ service = FALSE
    /\ calls = <<>>
    /\ ret = [op |-> "none"]
    /\ RangeIdle /\ FanIdle /\ FmtIdle /\ QueryIdle

NextPlugin ==
    \/ \E settings \in Settings : Initialize(settings)
    \/ CallGetActivityReport
    \/ GetStandupContext

SpecPlugin == InitPlugin /\ [][NextPlugin]_vars

-----------------------------------------------------------------------------
(* Service and plugin claims *)

\* C5: when GetUser or GetIssues returns an error, GetActivityReport returns
\* an error and a nil report, and when GetUser fails GetIssues is not called.
C5_ErrorMeansNilReport ==
    ret.op = "GetActivityReport" =>
        /\ (\E k \in 1..Len(calls) : calls[k].resp.err # <<>>)
              => (ret.err # <<>> /\ ret.report.isNil)
        /\ (\E k \in 1..Len(calls) :
               calls[k].op = "GetUser" /\ calls[k].resp.err # <<>>)
              => (\A k \in 1..Len(calls) : calls[k].op # "GetIssues")

\* GetActivityReport has failed on GetIssues, after a GetUser that succeeded.
C5_Witness ==
    /\ ret.op = "GetActivityReport"
    /\ Len(calls) = 2
    /\ calls[2].op = "GetIssues"
    /\ calls[2].resp.err # <<>>
    /\ ret.err # <<>>
    /\ ret.report.isNil

\* C6: when both repository calls succeed, GetIssues was called once, with the
\* time range GetActivityReport was given and the AccountID of the user
\* GetUser returned, and the report holds that time range, that user and the
\* issues GetIssues returned, with a nil error.
C6_ReportOnSuccess ==
    (ret.op = "GetActivityReport"
     /\ \A k \in 1..Len(calls) : calls[k].resp.err = <<>>)
    => /\ Len(calls) = 2
       /\ calls[1].op = "GetUser"
       /\ calls[2].op = "GetIssues"
       /\ calls[2].timeRange = ret.arg
       /\ calls[2].userID = calls[1].resp.user.val.AccountID
       /\ ret.err = <<>>
       /\ ~ret.report.isNil
       /\ ret.report.val = ActivityReport(ret.arg, calls[1].resp.user.val,
                                          calls[2].resp.issues)

\* GetActivityReport has returned a report of three issues for Bob.
C6_Witness ==
    /\ ret.op = "GetActivityReport"
    /\ ret.err = <<>>
    /\ ~ret.report.isNil
    /\ ret.report.val.User.AccountID = Bob.AccountID
    /\ Len(ret.report.val.Issues.elems) = 3
    /\ calls[2].userID = Bob.AccountID

\* The formatter C10 names for a value of jira.format.
C10_Expected(f) ==
    IF f.kind = "string" /\ f.value \in {"xml", "json", "markdown", "html"}
    THEN f.value
    ELSE "json"

\* C10: after Initialize returns nil the formatter is the one named by
\* jira.format (xml, json, markdown, html), and the JSON formatter when the
\* value is absent, empty, not a string or unknown; it is never nil.
C10_FormatterSelected ==
    (ret.op = "Initialize" /\ ret.outcome = "return" /\ ret.err = <<>>)
    => /\ formatter = C10_Expected(ret.arg.format)
       /\ formatter \in {"xml", "json", "markdown", "html"}

\* Initialize has returned nil for jira.format = "html".
C10_Witness ==
    /\ ret.op = "Initialize"
    /\ ret.outcome = "return"
    /\ ret.err = <<>>
    /\ ret.arg.format = FormatSetting("string", "html")
    /\ formatter = "html"

-----------------------------------------------------------------------------
(* Failure policy of the extraction *)

\* The items of the batch whose timestamp parses, in batch order.
Parsing(xs) == SelectSeq(xs, LAMBDA x : ~ParseTime(x.Created).err)

\* What the batch yields once the items that fail to parse are taken out.
WithoutParseFailures ==
    IF mode = "comments"
    THEN processCommentsSequential(Parsing(items), timeRange)
    ELSE processChangelogSequential(Parsing(items), timeRange, userAccountID)

\* C13: an item whose timestamp fails to parse is dropped and changes nothing
\* else: no worker fails, and the batch returns what it returns without that
\* item (the same values the same number of times; in the sequential path the
\* same sequence), so every other item that passes the inclusion rule is
\* still in the output.
C13_ParseFailureDropsOnlyThatItem ==
    (mode \in {"comments", "changelog"}) =>
        /\ \A i \in 1..N : wpc[i] # "panic"
        /\ phase = "returned" =>
              /\ \A v \in {result[j] : j \in 1..Len(result)}
                          \cup {WithoutParseFailures[j] :
                                  j \in 1..Len(WithoutParseFailures)} :
                    Count(result, v) = Count(WithoutParseFailures, v)
              /\ N < Threshold => result = WithoutParseFailures

\* The fan-out path returned a Comment from a batch in which another item
\* failed to parse.
C13_Witness ==
    /\ mode = "comments"
    /\ phase = "returned"
    /\ N >= Threshold
    /\ \E i \in 1..N : ParseTime(items[i].Created).err
    /\ result # <<>>

-----------------------------------------------------------------------------
(* The query builder: JiraAPIRepository.buildJQLQuery and the request that *)
(* fetchUpdatedIssues sends.  A format string is a sequence of atoms in    *)
(* which the atom "%s" is the verb.                                        *)

\* The characters of a Go string, whatever atoms it is written in.
RECURSIVE Text(_)
Text(str) == IF str = <<>> THEN "" ELSE Head(str) \o Text(Tail(str))

\* fmt.Sprintf(format, args...) for string arguments and %s verbs.
RECURSIVE SprintfFrom(_, _, _)
SprintfFrom(format, args, k) ==
    IF format = <<>>
    THEN IF k <= Len(args)
         THEN <<"%!(EXTRA ">>
              \o Concat([i \in 1..(Len(args) - k + 1) |->
                            (IF i = 1 THEN <<>> ELSE <<", ">>)
                            \o <<"string=">> \o args[k + i - 1]],
                        Len(args) - k + 1)
              \o <<")">>
         ELSE <<>>
    ELSE IF Head(format) = "%s"
         THEN (IF k <= Len(args) THEN args[k] ELSE <<"%!s(MISSING)">>)
              \o SprintfFrom(Tail(format), args, k + 1)
         ELSE <<Head(format)>> \o SprintfFrom(Tail(format), args, k)

Sprintf(format, args) == SprintfFrom(format, args, 1)

\* strings.Join(elems, sep)
Join(elems, sep) ==
    Concat([i \in 1..Len(elems) |->
               (IF i = 1 THEN <<>> ELSE <<sep>>) \o elems[i]], Len(elems))

QueryOptions(template, assignee, project, status, sprints, max, fields, expand) ==
    [JQLTemplate |-> template, AssigneeCurrentUser |-> assignee,
     Project |-> project, StatusFilter |-> status, InOpenSprints |-> sprints,
     MaxResults |-> max, Fields |-> fields, ExpandChangelog |-> expand]

DefaultJQLTemplate ==
    <<"project = ", "%s", " AND updatedDate >= ", "%s",
      " AND updatedDate < ", "%s">>

DefaultFields ==
    <<"summary", "description", "status", "changelog", "comment">>

DefaultMaxResults == 100

\* func DefaultQueryOptions; Project is filled in by NewJiraClient.
DefaultQueryOptions(project) ==
    QueryOptions(DefaultJQLTemplate, TRUE, project, <<"!= Closed">>, TRUE,
                 DefaultMaxResults, DefaultFields, TRUE)

\* mutant: the "!Closed" shorthand is not translated
StatusClauseVerbatim(filter) == <<"status ">> \o filter

\* The condition buildJQLQuery appends for a non-empty StatusFilter.
statusClause(filter) ==
    IF Text(filter) = "!Closed" THEN <<"status != Closed">>
    ELSE IF Text(filter) = "!= Closed" THEN <<"status != Closed">>
    ELSE Sprintf(<<"status ", "%s">>, <<filter>>)

\* mutant: the sprint condition is appended before the status condition
JQLConditionsSprintFirst(opts, fromTime, toTime) ==
    <<Sprintf(opts.JQLTemplate, <<opts.Project, fromTime, toTime>>)>>
    \o (IF opts.AssigneeCurrentUser
        THEN <<(<<"assignee = currentUser()">>)>> ELSE <<>>)
    \o (IF opts.InOpenSprints
        THEN <<(<<"sprint IN openSprints()">>)>> ELSE <<>>)
    \o (IF Text(opts.StatusFilter) # ""
        THEN <<statusClause(opts.StatusFilter)>> ELSE <<>>)

\* The slice `conditions` of buildJQLQuery before it is joined.
jqlConditions(opts, fromTime, toTime) ==
    <<Sprintf(opts.JQLTemplate, <<opts.Project, fromTime, toTime>>)>>
    \o (IF opts.AssigneeCurrentUser
        THEN <<(<<"assignee = currentUser()">>)>> ELSE <<>>)
    \o (IF Text(opts.StatusFilter) # ""
        THEN <<statusClause(opts.StatusFilter)>> ELSE <<>>)
    \o (IF opts.InOpenSprints
        THEN <<(<<"sprint IN openSprints()">>)>> ELSE <<>>)

\* func (r *JiraAPIRepository) buildJQLQuery
buildJQLQuery(opts, fromTime, toTime) ==
    Join(jqlConditions(opts, fromTime, toTime), " AND ")

\* fetchUpdatedIssues up to the call of Issue.Search: the query and the search
\* options it sends for a window.
SearchRequest(opts, tr) ==
    [timeRange |-> tr,
     fromTime |-> FormatMinute(tr.Start),
     toTime |-> FormatMinute(tr.End),
     jql |-> buildJQLQuery(opts, FormatMinute(tr.Start), FormatMinute(tr.End)),
     MaxResults |-> opts.MaxResults,
     Fields |-> opts.Fields,
     Expand |-> IF opts.ExpandChangelog THEN "changelog" ELSE ""]

\* Templates with the three placeholders, the default one first.
JQLTemplates ==
    {DefaultJQLTemplate,
     <<"project = ", "%s", " AND created >= ", "%s", " AND created < ", "%s">>,
     <<"project = ", "%s", " AND updatedDate >= ", "%s",
       " AND updatedDate < ", "%s", " AND priority IN (High, Highest)">>}

StatusFilters ==
    {<<>>, <<"!Closed">>, <<"!= Closed">>, <<"= In Progress">>,
     <<"!", "=", " ", "Closed">>, <<"IN (Open, 'In Progress')">>}

QueryConfigs ==
    {QueryOptions(t, a, p, f, o, DefaultMaxResults, DefaultFields, TRUE) :
        t \in JQLTemplates, a \in BOOLEAN, p \in {<<"TEST">>, <<"R&D">>},
        f \in StatusFilters, o \in BOOLEAN}

\* The windows a report is asked for: every non-empty range of instants.
QueryRanges == {tr \in TimeRanges : tr.Start < tr.End}

InitQuery ==
    /\ config \in QueryConfigs
    /\ search = <<>>
    /\ RangeIdle /\ FanIdle /\ PluginIdle /\ FmtIdle

\* One call of fetchUpdatedIssues, up to the request it sends.
FetchUpdatedIssues ==
    /\ \E tr \in QueryRanges : search' = SearchRequest(config, tr)
    /\ UNCHANGED config
    /\ UNCHANGED <<rangeVars, fanVars, pluginVars, fmtVars>>

NextQuery == FetchUpdatedIssues

SpecQuery == InitQuery /\ [][NextQuery]_vars

-----------------------------------------------------------------------------
(* Claims about the query builder *)

\* The template with its k-th placeholder replaced by the k-th of project,
\* from and to.
FilledTemplate ==
    LET t == config.JQLTemplate
        args == <<config.Project, search.fromTime, search.toTime>>
        Nth(i) == Cardinality({m \in 1..i : t[m] = "%s"})
    IN Concat([i \in 1..Len(t) |->
                  IF t[i] = "%s" THEN args[Nth(i)] ELSE <<t[i]>>], Len(t))

\* The status clause the query is to hold for a non-empty filter.
ExpectedStatusClause ==
    IF Text(config.StatusFilter) \in {"!Closed", "!= Closed"}
    THEN "status != Closed"
    ELSE "status " \o Text(config.StatusFilter)

\* C11: the query is the template filled with project, from and to in that
\* order, then " AND assignee = currentUser()" iff the assignee flag is set,
\* then " AND " and the status clause iff the status filter is non-empty, then
\* " AND sprint IN openSprints()" iff the open-sprints flag is set, and
\* nothing else; with no optional clause it is the filled template alone.
C11_ClausesInFixedOrder ==
    search # <<>> =>
        Text(search.jql) =
            Text(FilledTemplate)
            \o (IF config.AssigneeCurrentUser
                THEN " AND assignee = currentUser()" ELSE "")
            \o (IF Text(config.StatusFilter) # ""
                THEN " AND " \o ExpectedStatusClause ELSE "")
            \o (IF config.InOpenSprints
                THEN " AND sprint IN openSprints()" ELSE "")

\* A query was built from a custom template with all three optional clauses.
C11_Witness ==
    /\ search # <<>>
    /\ config.JQLTemplate # DefaultJQLTemplate
    /\ config.AssigneeCurrentUser
    /\ Text(config.StatusFilter) = "= In Progress"
    /\ config.InOpenSprints

\* C12: for the status filters "!Closed" and "!= Closed" the query holds the
\* clause `status != Closed` and is the same query for both spellings; for
\* any other non-empty filter the clause is `status ` followed by the filter.
C12_StatusClause ==
    (search # <<>> /\ Text(config.StatusFilter) # "") =>
        IF Text(config.StatusFilter) \in {"!Closed", "!= Closed"}
        THEN /\ Contains(search.jql, <<" AND ", "status != Closed">>)
             /\ ~Contains(search.jql, <<"status ">>)
             /\ \A f \in {<<"!Closed">>, <<"!= Closed">>} :
                   Text(buildJQLQuery([config EXCEPT !.StatusFilter = f],
                                      search.fromTime, search.toTime))
                      = Text(search.jql)
        ELSE Contains(search.jql, <<" AND ", "status ">> \o config.StatusFilter)

\* A query was built for the shorthand "!Closed".
C12_Witness ==
    /\ search # <<>>
    /\ Text(config.StatusFilter) = "!Closed"
    /\ Contains(search.jql, <<"status != Closed">>)

\* Both bounds of the two windows fall on the same calendar days.
SameCalendarDays(a, b) ==
    /\ a.Start \div TicksPerDay = b.Start \div TicksPerDay
    /\ a.End \div TicksPerDay = b.End \div TicksPerDay

\* C17: the window bounds are put into the query as YYYY-MM-DD, without a
\* time of day, so that windows whose bounds fall on the same calendar days
\* give the same query.
C17_DateOnlyInQuery ==
    search # <<>> =>
        /\ search.fromTime = FormatDate(search.timeRange.Start)
        /\ search.toTime = FormatDate(search.timeRange.End)
        /\ \A tr \in QueryRanges :
              SameCalendarDays(tr, search.timeRange)
              => Text(SearchRequest(config, tr).jql) = Text(search.jql)

-----------------------------------------------------------------------------
(* Claims about the issues of a report *)

\* The latest call was GetActivityReport and it returned a report.
ReportReturned ==
    /\ ret.op = "GetActivityReport"
    /\ ret.err = <<>>
    /\ ~ret.report.isNil

\* The issues of that report, and the raw issues the search answered with.
ReportedIssues == ret.report.val.Issues.elems
FetchedIssues == calls[2].resp.requests[1].resp.issues

\* C14: within a report, the Comment sequences that are empty are all
\* represented the same way (all nil or all non-nil), and so are the empty
\* Change sequences, whether the raw issue had a comment collection or a
\* changelog with nothing in the window or had none at all.
C14_EmptyRepresentedUniformly ==
    ReportReturned =>
        \A i, j \in 1..Len(ReportedIssues) :
            /\ (Len(ReportedIssues[i].Comments.elems) = 0
                /\ Len(ReportedIssues[j].Comments.elems) = 0)
               => ReportedIssues[i].Comments.isNil
                    = ReportedIssues[j].Comments.isNil
            /\ (Len(ReportedIssues[i].Changes.elems) = 0
                /\ Len(ReportedIssues[j].Changes.elems) = 0)
               => ReportedIssues[i].Changes.isNil
                    = ReportedIssues[j].Changes.isNil

C16_OnlyIssuesWithActivity ==
    ReportReturned =>
        \A i \in 1..Len(ReportedIssues) :
            \/ Len(ReportedIssues[i].Comments.elems) > 0
            \/ Len(ReportedIssues[i].Changes.elems) > 0

-----------------------------------------------------------------------------
(* Claims about what the formatters leave alone and leave out *)

\* C18: a formatter does not change the report it is given: after every
\* Format call the report (time range, user, issues, and each issue's
\* comments and changes in their order) is what it was when the call was made.
C18_FormatLeavesReportUnchanged ==
    \A k \in 1..Len(formatted) :
        /\ formatted[k].report = report
        /\ formatted[k].report.Issues.elems = report.Issues.elems
        /\ \A i \in 1..Len(report.Issues.elems) :
              /\ formatted[k].report.Issues.elems[i].Comments
                    = report.Issues.elems[i].Comments
              /\ formatted[k].report.Issues.elems[i].Changes
                    = report.Issues.elems[i].Changes

\* A report of three issues in two or more statuses, one of them with
\* comments, has been through the Markdown and the HTML formatter.
C18_Witness ==
    /\ Len(formatted) = 2
    /\ formatted[1].formatter = "markdown"
    /\ formatted[2].formatter = "html"
    /\ Len(report.Issues.elems) = 3
    /\ Cardinality(Statuses(report.Issues.elems)) >= 2
    /\ \E i \in 1..3 : Len(report.Issues.elems[i].Comments.elems) > 0

\* AccountIDs a report's user can carry.
AccountIDs == {Alice.AccountID, Bob.AccountID, "u3"}

\* C19: the JSON output does not depend on User.AccountID: the report with any
\* other accountID formats to the same output, whose user object holds
\* displayName and email and nothing else.
C19_JSONOmitsAccountID ==
    \A k \in 1..Len(formatted) :
        formatted[k].formatter = "json" =>
            LET rpt == formatted[k].report
                out == formatted[k].out
            IN /\ \A id \in AccountIDs :
                     JSONFormat([rpt EXCEPT !.User.AccountID = id]) = {out}
               /\ Len(rpt.Issues.elems) > 0 =>
                     Contains(out.Content,
                        <<"\"user\": {">>
                        \o JSONMember("displayName", rpt.User.DisplayName)
                        \o <<",">>
                        \o JSONMember("email", rpt.User.Email)
                        \o <<"}">>)

\* A report with issues has been formatted as JSON.
C19_Witness ==
    /\ Len(formatted) >= 1
    /\ formatted[1].formatter = "json"
    /\ Len(report.Issues.elems) >= 2
    /\ report.User.AccountID = Bob.AccountID
    /\ Contains(formatted[1].out.Content, <<"\"user\": {">>)

-----------------------------------------------------------------------------
(* Claims about the requests of one call *)

\* Number of repository calls of the latest entry-point call that are `op`.
CallsOf(op) == Cardinality({k \in 1..Len(calls) : calls[k].op = op})

\* C20: a report request (GetActivityReport, directly or from
\* GetStandupContext) calls GetUser exactly once and first, calls GetIssues
\* once if GetUser succeeded and not at all otherwise, sends one request to
\* the server per repository call, stops at the first failure, and its result
\* is made of the answers of this very call.
C20_OneFetchPerRequest ==
    (ret.op \in {"GetActivityReport", "GetStandupContext"}
     /\ ret.outcome = "return")
    => /\ Len(calls) >= 1
       /\ calls[1].op = "GetUser"
       /\ CallsOf("GetUser") = 1
       /\ CallsOf("GetIssues") = (IF calls[1].resp.err = <<>> THEN 1 ELSE 0)
       /\ Len(calls) = CallsOf("GetUser") + CallsOf("GetIssues")
       /\ \A k \in 1..Len(calls) :
             /\ Len(calls[k].resp.requests) = 1
             /\ calls[k].timeRange = ret.arg
             /\ calls[k].resp.err # <<>> => (k = Len(calls) /\ ret.err # <<>>)
       /\ (ret.op = "GetActivityReport" /\ ret.err = <<>>) =>
             /\ ret.report.val.User.AccountID
                   = calls[1].resp.requests[1].resp.user.AccountID
             /\ [i \in 1..Len(ret.report.val.Issues.elems) |->
                    ret.report.val.Issues.elems[i].Key]
                  = [i \in 1..Len(calls[2].resp.requests[1].resp.issues) |->
                        calls[2].resp.requests[1].resp.issues[i].Key]

\* GetStandupContext has failed on GetUser: one repository call, one request.
C20_Witness ==
    /\ ret.op = "GetStandupContext"
    /\ ret.outcome = "return"
    /\ ret.err # <<>>
    /\ Len(calls) = 1
    /\ calls[1].op = "GetUser"
    /\ calls[1].resp.requests[1].resp.err # <<>>

-----------------------------------------------------------------------------
(* Claims about the grouping by status *)

\* The offsets at which str occurs in text.
Occurrences(text, str) ==
    {off \in 0..(Len(text) - Len(str)) :
        SubSeq(text, off + 1, off + Len(str)) = str}

\* What opens a status section, and what opens the section of one status.
SectionOpener(name) == IF name = "markdown" THEN "## " ELSE "<h2>"

SectionHeader(name, status) ==
    IF name = "markdown"
    THEN <<"## ">> \o status \o <<" Issues\n\n">>
    ELSE <<"<h2>">> \o status \o <<" Issues</h2>\n">>

\* What opens the rendering of one issue.
IssueHeading(name, issue) ==
    IF name = "markdown"
    THEN <<"### [">> \o issue.Key \o <<"] ">> \o issue.Summary
    ELSE <<"<h3><span class=\"issue-key\">[">> \o issue.Key
         \o <<"]</span> <span class=\"issue-summary\">">> \o issue.Summary

\* C21: in a Markdown or HTML output every status of the report heads exactly
\* one section, there are no other sections, and every issue is rendered
\* exactly once, after the header of its own status and before any later
\* section header.
C21_OneSectionPerStatus ==
    \A k \in 1..Len(formatted) :
        LET name == formatted[k].formatter
            is == formatted[k].report.Issues.elems
            text == formatted[k].out.Content
        IN (name \in {"markdown", "html"} /\ Len(is) > 0) =>
            /\ \A st \in Statuses(is) :
                  Cardinality(Occurrences(text, SectionHeader(name, st))) = 1
            /\ Cardinality(Occurrences(text, <<SectionOpener(name)>>))
                  = Cardinality(Statuses(is))
            /\ \A i \in 1..Len(is) :
                  LET at == Occurrences(text, IssueHeading(name, is[i]))
                      own == Occurrences(text,
                                         SectionHeader(name, is[i].Status))
                  IN /\ Cardinality(at) = 1
                     /\ \A pos \in at, h \in own :
                           /\ h < pos
                           /\ \A o \in Occurrences(text,
                                                   <<SectionOpener(name)>>) :
                                 ~(h < o /\ o < pos)

\* A report of three issues, two of them in the same status, has been
\* rendered as Markdown and as HTML.
C21_Witness ==
    /\ Len(formatted) = 2
    /\ formatted[1].formatter = "html"
    /\ formatted[2].formatter = "markdown"
    /\ Len(report.Issues.elems) = 3
    /\ Cardinality(Statuses(report.Issues.elems)) = 2

-----------------------------------------------------------------------------
(* Claims about GetStandupContext *)

\* C22: when the aggregation fails, GetStandupContext does not call Format
\* and returns an error with the zero context; whenever it returns an error,
\* also one of Format, the context is the zero context; a context with
\* content comes only with a nil error, after exactly one Format call.
C22_FailureShortCircuits ==
    (ret.op = "GetStandupContext" /\ ret.outcome = "return") =>
        /\ (\E k \in 1..Len(calls) : calls[k].resp.err # <<>>)
              => /\ ret.formats = 0
                 /\ ret.err # <<>>
                 /\ ret.context = ZeroStandupContext
        /\ ret.err # <<>> => ret.context = ZeroStandupContext
        /\ ret.err = <<>> => /\ ret.formats = 1
                             /\ ret.context.PluginName = <<"daiv-jira">>
                             /\ ret.context.Content # <<>>

\* GetStandupContext has failed because GetIssues failed.
C22_Witness ==
    /\ ret.op = "GetStandupContext"
    /\ ret.outcome = "return"
    /\ Len(calls) = 2
    /\ calls[2].resp.err # <<>>
    /\ ret.formats = 0
    /\ ret.err # <<>>

-----------------------------------------------------------------------------
(* Claims about the strategy of the aggregator *)

\* What item i of the batch yields by itself (for an issue: its key).
YieldOf(i) ==
    CASE mode = "comments"  -> commentWorker(items[i], timeRange)
      [] mode = "changelog" -> historyWorker(items[i], timeRange, userAccountID)
      [] mode = "issues"    -> <<items[i].Key>>

\* The result as YieldOf counts it (for issues: their keys).
Yielded ==
    IF mode = "issues" THEN [j \in 1..Len(result) |-> result[j].Key]
    ELSE result

\* C23: a batch of fewer than 5 items (issues, comments or history entries)
\* is processed without starting a goroutine and returns what its items
\* yield in input order; a batch of 5 or more is fanned out.
C23_BelowThresholdSequential ==
    (mode # "none" /\ phase = "returned") =>
        /\ N < Threshold =>
              /\ spawned = 0
              /\ Yielded = Concat([i \in 1..N |-> YieldOf(i)], N)
        /\ N >= Threshold => spawned = N

\* History entry i passes the entry-level filter: its timestamp is in the
\* window and its author is the actor.
Passing(i) ==
    /\ StampInWindow(items[i].Created)
    /\ items[i].Author.AccountID = userAccountID

\* Number of items carried by the passing entries among the first n.
RECURSIVE PassingItems(_)
PassingItems(n) ==
    IF n = 0 THEN 0
    ELSE PassingItems(n - 1) + (IF Passing(n) THEN Len(items[n].Items) ELSE 0)

\* C24: processChangelog returns, for every passing history entry with k
\* items, exactly k Changes, one per item, with the entry's timestamp and
\* author display name; the number of Changes returned is the sum of the item
\* counts of the passing entries, so a passing entry without items adds none.
C24_OneChangePerItem ==
    (mode = "changelog" /\ phase = "returned") =>
        /\ Len(result) = PassingItems(N)
        /\ \A i \in 1..N : Passing(i) =>
              \A k \in 1..Len(items[i].Items) :
                 /\ \E j \in 1..Len(result) : ChangeFrom(result, j, i, k)
                 /\ \A j \in 1..Len(result) : ChangeFrom(result, j, i, k) =>
                       /\ result[j].Timestamp = ParseTime(items[i].Created).t
                       /\ result[j].Author = items[i].Author.DisplayName
        /\ \A j \in 1..Len(result) :
              Count(result, result[j])
                 = Cardinality({ik \in (1..N) \X (1..2) :
                                   /\ Passing(ik[1])
                                   /\ ik[2] <= Len(items[ik[1]].Items)
                                   /\ ChangeFrom(result, j, ik[1], ik[2])})

\* The fan-out path returned while a passing entry carried two items and
\* another passing entry carried none.
C24_Witness ==
    /\ mode = "changelog"
    /\ phase = "returned"
    /\ N >= Threshold
    /\ \E i \in 1..N : Passing(i) /\ Len(items[i].Items) = 2
    /\ \E i \in 1..N : Passing(i) /\ Len(items[i].Items) = 0
    /\ Len(result) >= 3

\* Every goroutine of the fan-out has returned.
AllWorkersDone == spawned = N /\ \A i \in 1..N : wpc[i] = "done"

\* C25 as stated: in fan-out mode the collector takes no result from the
\* channel before every worker has finished.
C25_DrainedAfterCompletion ==
    (mode # "none" /\ phase = "collect" /\ result # <<>>) => AllWorkersDone

\* C25: in fan-out mode the channel is closed only after every worker has
\* finished, and the caller returns only once the channel is closed and
\* empty; the caller takes results from the channel while workers may still
\* be running.
C25_ClosedAfterCompletion ==
    mode # "none" =>
        /\ closed => AllWorkersDone
        /\ (phase = "returned" /\ spawned > 0) =>
              /\ closed
              /\ AllWorkersDone
              /\ resultChan = <<>>

\* The caller has collected a result while a worker has not yet finished and
\* the channel is still open.
C25_Witness ==
    /\ mode # "none"
    /\ phase = "collect"
    /\ result # <<>>
    /\ ~closed
    /\ \E i \in 1..N : wpc[i] \in {"run", "send"}

\* Comment j of sequence q was built from raw comment i.
CommentFrom(q, j, i) ==
    /\ ~ParseTime(items[i].Created).err
    /\ q[j] = Comment(ParseTime(items[i].Created).t,
                      items[i].Author.DisplayName, items[i].Body)

\* The raw positions an output of the sequential path can be traced to: for
\* comments the raw comment, for changes the history entry and the item.
Origins ==
    IF mode = "comments" THEN (1..N) \X {1}
    ELSE {ik \in (1..N) \X (1..2) : ik[2] <= Len(items[ik[1]].Items)}

\* Raw position a comes before raw position b in the input.
Before(a, b) == a[1] < b[1] \/ (a[1] = b[1] /\ a[2] < b[2])

SequentialResult ==
    IF mode = "comments" THEN processCommentsSequential(items, timeRange)
    ELSE processChangelogSequential(items, timeRange, userAccountID)

\* C27: whatever the interleaving, the fan-out branch of processComments and
\* of processChangelog returns the same multiset as the sequential function
\* applied to the same input, window and actor.
C27_FanOutEqualsSequentialAsMultiset ==
    (mode \in {"comments", "changelog"} /\ phase = "returned" /\ N >= Threshold) =>
        /\ Len(result) = Len(SequentialResult)
        /\ \A j \in 1..Len(result) :
              Count(result, result[j]) = Count(SequentialResult, result[j])

\* The fan-out branch of processChangelog returned the Changes of the
\* sequential function in another order.
C27_Witness ==
    /\ mode = "changelog"
    /\ phase = "returned"
    /\ N >= Threshold
    /\ Len(result) >= 3
    /\ result # SequentialResult

\* The values of sequence q as the bookkeeping below compares them (issues
\* by key).
Keyed(q) == IF mode = "issues" THEN [j \in 1..Len(q) |-> q[j].Key] ELSE q

\* Number of copies of v among what the goroutines 1..n still hold unsent.
RECURSIVE Unsent(_, _)
Unsent(n, v) ==
    IF n = 0 THEN 0 ELSE Unsent(n - 1, v) + Count(Keyed(wbuf[n]), v)

\* Number of copies of v among what the goroutines 1..n that have run up to
\* their first send have built.
RECURSIVE Built(_, _)
Built(n, v) ==
    IF n = 0 THEN 0
    ELSE Built(n - 1, v)
         + (IF wpc[n] \in {"idle", "run"} THEN 0 ELSE Count(YieldOf(n), v))

\* C29: in a fan-out call the channel is closed only after every worker has
\* finished and stays closed, no worker sends on the closed channel, the
\* caller returns only once the channel is closed and empty, and every value
\* a worker has sent is in the channel or in the collected result.
C29_CloseAfterWorkersCollectAll ==
    (mode = "issues" \/ (mode \in {"comments", "changelog"} /\ N >= Threshold)) =>
        /\ closed => /\ closerUp
                     /\ wg = 0
                     /\ \A i \in 1..N : wpc[i] = "done"
        /\ \A i \in 1..N : wpc[i] # "panic"
        /\ (phase = "returned" /\ spawned > 0) =>
              /\ closed
              /\ resultChan = <<>>
              /\ \A i \in 1..N : wbuf[i] = <<>>
        /\ LET held == Keyed(result) \o Keyed(resultChan) IN
           /\ \A i \in 1..N : \A k \in 1..Len(YieldOf(i)) :
                 LET v == YieldOf(i)[k] IN
                 Count(held, v) + Unsent(N, v) = Built(N, v)
           /\ \A j \in 1..Len(held) :
                 \E i \in 1..N : \E k \in 1..Len(YieldOf(i)) :
                    held[j] = YieldOf(i)[k]

\* The channel has been closed with values still in it, and the caller is
\* still collecting.
C29_Witness ==
    /\ mode = "issues"
    /\ phase = "collect"
    /\ closed
    /\ resultChan # <<>>
    /\ result # <<>>

\* C30: in the fan-out branch of processChangelog, among the Changes already
\* sent (collected or still in the channel), a Change built from a later item
\* of a history entry is preceded by the Change built from each earlier item
\* of that entry, and at return both are in the result.
C30_ItemsOfOneEntryKeepOrder ==
    (mode = "changelog" /\ N >= Threshold) =>
        LET held == result \o resultChan IN
        \A i \in 1..N : \A k, l \in 1..Len(items[i].Items) :
           (Passing(i) /\ k < l) =>
              /\ \A j2 \in 1..Len(held) : ChangeFrom(held, j2, i, l) =>
                    \E j1 \in 1..(j2 - 1) : ChangeFrom(held, j1, i, k)
              /\ phase = "returned" =>
                    \E j1, j2 \in 1..Len(result) :
                       /\ j1 < j2
                       /\ ChangeFrom(result, j1, i, k)
                       /\ ChangeFrom(result, j2, i, l)

\* The fan-out branch returned the two Changes of one history entry with a
\* Change of another entry between them.
C30_Witness ==
    /\ mode = "changelog"
    /\ phase = "returned"
    /\ N >= Threshold
    /\ \E i \in 1..N :
          /\ Passing(i)
          /\ Len(items[i].Items) = 2
          /\ \E j1, j2 \in 1..Len(result) :
                /\ j1 + 1 < j2
                /\ ChangeFrom(result, j1, i, 1)
                /\ ChangeFrom(result, j2, i, 2)

-----------------------------------------------------------------------------
(* SpecTermination: the three extraction functions under fair scheduling *)

\* A history entry of the actor, in every window, that carries b items.
BurstHistory(b) ==
    RawHistory(Stamp(2), Alice,
               [k \in 1..b |-> ChangelogItem(<<"labels">>, <<>>, <<"x">>)])

\* The calls whose termination is checked: every prefix of the comment feed
\* and of the history feed (empty, below and above the threshold), batches of
\* issues, and history batches at the threshold whose entries all carry b
\* items, so that up to MaxBurst times the batch size must pass through a
\* channel of twice the batch size.
InitTermination ==
    /\ \/ \E n \in 0..MaxItems, tr \in FanRanges :
             FanEntry("comments", SubSeq(CommentFeed, 1, n), tr, "")
       \/ \E n \in 0..MaxItems, tr \in FanRanges :
             FanEntry("changelog", SubSeq(HistoryFeed, 1, n), tr, Alice.AccountID)
       \/ \E b \in 0..MaxBurst :
             FanEntry("changelog", [i \in 1..Threshold |-> BurstHistory(b)],
                      TimeRange(1, 3), Alice.AccountID)
       \/ \E xs \in Selections(IssueFeed, MaxIssues) :
             FanEntry("issues", xs, TimeRange(1, 3), Alice.AccountID)
    /\ RangeIdle /\ PluginIdle /\ FmtIdle /\ QueryIdle

NextTermination == FanNext \/ RunSequential

\* The Go scheduler lets some goroutine that can take a step take one.
SpecTermination ==
    InitTermination /\ [][NextTermination]_vars /\ WF_vars(NextTermination)

\* C28: under fair scheduling every call of processIssues, processComments
\* and processChangelog eventually returns, also when the goroutines of
\* processChangelog have more to send than the channel holds.
C28_EveryCallReturns == <>(phase = "returned")

\* processChangelog returned more Changes than its channel can hold.
C28_Witness ==
    /\ mode = "changelog"
    /\ phase = "returned"
    /\ spawned = N
    /\ Len(result) > Capacity

\* A history goroutine waits to send on a full channel.
C28_SenderBlocked ==
    /\ mode = "changelog"
    /\ Len(resultChan) = Capacity
    /\ \E i \in 1..N : wpc[i] = "send"

=============================================================================
